---- MODULE Spec2Model ----
(***************************************************************************)
(* The versioned transformation engine of the image tool:                  *)
(* core/processing_manager.py (ProcessingManager: history chain, undo /    *)
(* redo, per-step persistence, the transform catalogue) together with the  *)
(* decoder entry point core/io_utils.py (load_image).                      *)
(*                                                                         *)
(* Indices are 0-based as in the Python source; TLA+ sequences are         *)
(* 1-based, so the entry at Python index i is history[i + 1].              *)
(***************************************************************************)
EXTENDS Integers, Sequences, FiniteSets, TLC

VARIABLES
    original_path,   \* ProcessingManager.original_path  : Optional[str]
    original_name,   \* ProcessingManager.original_name  : Optional[str]
    history,         \* ProcessingManager._history       : List[np.ndarray]
    history_tags,    \* ProcessingManager._history_tags  : List[str]
    history_files,   \* ProcessingManager._history_files : List[str]
    current_index,   \* ProcessingManager._current_index : int
    disk,            \* files under PREPROCESSED_IMAGE_DIR: path -> content
    next_oid,        \* identity of the next array object to be created
    ret,             \* outcome of the last call: return value or exception
    dropped,         \* history variable: identities of discarded buffers
    driver,          \* the caller: its script, if any, and its allocation budget
    pipeline,        \* ImageProcessingPipeline: self.state and the frame of run
    gui              \* MainWindow's two history buttons and its TextAnalysisWidget

vars == <<original_path, original_name, history, history_tags,
          history_files, current_index, disk, next_oid, ret, dropped, driver,
          pipeline, gui>>

(***************************************************************************)
(* Bounds of the model.                                                    *)
(***************************************************************************)
\* Array objects created in one session (loads and committed edits).
MaxAlloc == 3

\* Array objects created in a session that only loads, denoises, flips,
\* undoes and redoes.
MaxNamingAlloc == 4

\* Array objects created in a session that only loads, crops and undoes.
MaxCropAlloc == 3

\* Array objects created in a session that crops at the edges of the image.
MaxEdgeAlloc == 3

\* Array objects created in a session that only loads, rotates and undoes:
\* a load and four rotations fit.
MaxRotateAlloc == 5

\* Array objects created in a session that only loads, denoises and undoes.
MaxDenoiseAlloc == 3

\* Array objects created in a session that loads, flips, moves the pointer
\* and looks entries up.
MaxLookupAlloc == 3

\* Array objects created in a session that loads files of every kind,
\* converts colours and undoes.
MaxDecodeAlloc == 3

\* Array objects created in the session that precedes the scripted scenario,
\* and array objects the scenario itself creates (a load and three edits).
MaxPriorAlloc == 2

ScenarioAllocs == 4

(***************************************************************************)
(* Optional[str]: None is the empty sequence, a string s is <<s>>.         *)
(***************************************************************************)
None == <<>>

Some(s) == <<s>>

(***************************************************************************)
(* Strings.                                                                *)
(***************************************************************************)
RECURSIVE Remove(_, _)
\* str.replace(c, "") for a one-character c
Remove(s, c) ==
    IF Len(s) = 0 THEN ""
    ELSE LET first == SubSeq(s, 1, 1)
             rest  == Remove(SubSeq(s, 2, Len(s)), c)
         IN  IF first = c THEN rest ELSE first \o rest

RECURSIVE RFind(_, _, _)
\* the largest position j <= i with s[j] = c, or 0 (str.rfind, 1-based)
RFind(s, c, i) ==
    IF i = 0 THEN 0
    ELSE IF SubSeq(s, i, i) = c THEN i
    ELSE RFind(s, c, i - 1)

\* os.path.basename
Basename(path) == SubSeq(path, RFind(path, "/", Len(path)) + 1, Len(path))

RECURSIVE FirstNonDot(_, _, _)
\* the first position in from..upto-1 holding something else than ".", or 0
FirstNonDot(s, from, upto) ==
    IF from >= upto THEN 0
    ELSE IF SubSeq(s, from, from) # "." THEN from
    ELSE FirstNonDot(s, from + 1, upto)

\* os.path.splitext(base)[0]: the last dot splits, unless only dots precede it
SplitextRoot(base) ==
    LET dot == RFind(base, ".", Len(base))
    IN  IF dot > 0 /\ FirstNonDot(base, 1, dot) > 0
        THEN SubSeq(base, 1, dot - 1)
        ELSE base

(***************************************************************************)
(* Arrays.  An np.ndarray is [oid, h, w, ch, px]: its identity, its shape  *)
(* (ch = 1 is a 2-D array) and its rows of samples; every sample is the    *)
(* tuple of its channel values.  NoImg stands for Python's None.           *)
(***************************************************************************)
NoImg == [oid |-> -1, h |-> 0, w |-> 0, ch |-> 0, px |-> <<>>]

Arr(h, w, ch, px) == [oid |-> -1, h |-> h, w |-> w, ch |-> ch, px |-> px]

WithOid(img, oid) == [img EXCEPT !.oid = oid]

\* what a file or a comparison of pixel content sees of an array
Content(img) == [h |-> img.h, w |-> img.w, ch |-> img.ch, px |-> img.px]

\* ndarray.size
Size(img) == img.h * img.w * img.ch

\* ndarray.ndim
Ndim(img) == IF img.ch = 1 THEN 2 ELSE 3

(***************************************************************************)
(* The files the session can be pointed at, and what the decoders make of  *)
(* them (the decoders themselves, cv2.imdecode and pydicom, are outside    *)
(* the repository).                                                        *)
(***************************************************************************)
\* config.PREPROCESSED_IMAGE_DIR, relative to BASE_DIR
PREPROCESSED_IMAGE_DIR == "data/preprocessed"

\* the try/except around "import pydicom"
HAS_PYDICOM == TRUE

ScanPng == Arr(2, 3, 1, <<  <<<<10>>, <<20>>, <<30>>>>,
                            <<<<40>>, <<50>>, <<60>>>>  >>)

PhotoJpg == Arr(1, 2, 3, << <<<<1, 2, 3>>, <<200, 100, 50>>>> >>)

\* a 100 x 100 grayscale slice
SlicePng ==
    Arr(100, 100, 1,
        [r \in 1..100 |-> [c \in 1..100 |-> << (3 * r + 7 * c) % 256 >>]])

\* a PNG with an alpha channel: cv2.IMREAD_UNCHANGED keeps it (B, G, R, A)
LogoPng == Arr(1, 2, 4, << <<<<0, 0, 255, 255>>, <<9, 9, 9, 0>>>> >>)

\* an array without samples, the case load_original tests with img.size == 0
\* (cv2.imdecode is not known to return one)
EmptyPng == Arr(0, 0, 1, <<>>)

\* 16-bit samples as pydicom's pixel_array gives them
CtDcm == Arr(2, 1, 1, << <<<<100>>>>, <<<<612>>>> >>)

\* the readable files: path -> [magic, decoded]; decoded = NoImg when
\* cv2.imdecode cannot decode the bytes
Files ==
    ( "raw/scan.png"  :> [magic |-> "PNG",  decoded |-> ScanPng]  ) @@
    ( "in/photo.jpg"  :> [magic |-> "JFIF", decoded |-> PhotoJpg] ) @@
    ( "in/ct.dcm"     :> [magic |-> "DICM", decoded |-> CtDcm]    ) @@
    ( "raw/slice.png" :> [magic |-> "PNG",  decoded |-> SlicePng] ) @@
    ( "in/logo.png"   :> [magic |-> "PNG",  decoded |-> LogoPng]  ) @@
    ( "raw/empty.png" :> [magic |-> "PNG",  decoded |-> EmptyPng] ) @@
    ( "raw/bad.png"   :> [magic |-> "",     decoded |-> NoImg]    )

\* str.endswith
EndsWith(s, suffix) ==
    /\ Len(s) >= Len(suffix)
    /\ SubSeq(s, Len(s) - Len(suffix) + 1, Len(s)) = suffix

\* io_utils.is_dicom_file (the paths of the model are lower-case already)
is_dicom_file(path) ==
    IF EndsWith(path, ".dcm") THEN TRUE
    ELSE IF path \in DOMAIN Files THEN Files[path].magic = "DICM"
    ELSE FALSE

\* the samples of an array, as a set of channel values
Samples(img) == {img.px[r][c][k] : r \in 1..img.h, c \in 1..img.w, k \in 1..img.ch}

Min(S) == CHOOSE x \in S : \A y \in S : x <= y

Max(S) == CHOOSE x \in S : \A y \in S : x >= y

\* cv2.cvtColor(img, cv2.COLOR_GRAY2BGR)
GRAY2BGR(img) ==
    LET Sample(r, c) == LET v == img.px[r][c][1] IN <<v, v, v>>
    IN  Arr(img.h, img.w, 3,
            [r \in 1..img.h |-> [c \in 1..img.w |-> Sample(r, c)]])

\* cv2.cvtColor(img, cv2.COLOR_BGR2GRAY): 8-bit fixed point, 14 fractional bits
BGR2GRAY(img) ==
    LET Sample(r, c) ==
            LET s == img.px[r][c]
            IN  << (s[1] * 1868 + s[2] * 9617 + s[3] * 4899 + 8192) \div 16384 >>
    IN  Arr(img.h, img.w, 1,
            [r \in 1..img.h |-> [c \in 1..img.w |-> Sample(r, c)]])

\* io_utils.load_image, DICOM branch: rescale to 0..255, cast to uint8,
\* grey to three channels
DicomToImage(raw) ==
    LET lo  == Min(Samples(raw))
        hi  == Max(Samples(raw)) - lo
        Sample(r, c) ==
            LET v == raw.px[r][c][1] - lo
            IN  << IF hi > 0 THEN (v * 255) \div hi ELSE v >>
        img == Arr(raw.h, raw.w, raw.ch,
            [r \in 1..raw.h |-> [c \in 1..raw.w |-> Sample(r, c)]])
    IN  IF Ndim(img) = 2 THEN GRAY2BGR(img) ELSE img

\* io_utils.load_image: [exc, msg, img]; exc = "" when an array is returned
load_image(path) ==
    IF is_dicom_file(path) /\ HAS_PYDICOM
    THEN IF path \in DOMAIN Files /\ Files[path].magic = "DICM"
         THEN [exc |-> "", img |-> DicomToImage(Files[path].decoded)]
         ELSE [exc |-> "pydicom.error", img |-> NoImg]
    ELSE IF path \notin DOMAIN Files
         THEN [exc |-> "RuntimeError", img |-> NoImg]   \* open() raised
    ELSE IF Files[path].decoded = NoImg
         THEN [exc |-> "RuntimeError", img |-> NoImg]   \* imdecode gave None
    ELSE [exc |-> "", img |-> Files[path].decoded]

(***************************************************************************)
(* cv2 geometry (index arithmetic only; samples are moved, never changed). *)
(***************************************************************************)
\* cv2.rotate(img, cv2.ROTATE_90_CLOCKWISE)
ROTATE_90_CLOCKWISE(img) ==
    LET Sample(r, c) == img.px[img.h + 1 - c][r]
    IN  Arr(img.w, img.h, img.ch,
            [r \in 1..img.w |-> [c \in 1..img.h |-> Sample(r, c)]])

\* cv2.rotate(img, cv2.ROTATE_180)
ROTATE_180(img) ==
    LET Sample(r, c) == img.px[img.h + 1 - r][img.w + 1 - c]
    IN  Arr(img.h, img.w, img.ch,
            [r \in 1..img.h |-> [c \in 1..img.w |-> Sample(r, c)]])

\* cv2.rotate(img, cv2.ROTATE_90_COUNTERCLOCKWISE)
ROTATE_90_COUNTERCLOCKWISE(img) ==
    LET Sample(r, c) == img.px[c][img.w + 1 - r]
    IN  Arr(img.w, img.h, img.ch,
            [r \in 1..img.w |-> [c \in 1..img.h |-> Sample(r, c)]])

\* cv2.flip(img, 1): mirror left-right
FlipHorizontal(img) ==
    LET Sample(r, c) == img.px[r][img.w + 1 - c]
    IN  Arr(img.h, img.w, img.ch,
            [r \in 1..img.h |-> [c \in 1..img.w |-> Sample(r, c)]])

\* cv2.flip(img, 0): mirror top-bottom
FlipVertical(img) ==
    LET Sample(r, c) == img.px[img.h + 1 - r][c]
    IN  Arr(img.h, img.w, img.ch,
            [r \in 1..img.h |-> [c \in 1..img.w |-> Sample(r, c)]])

\* img[y:y2, x:x2].copy() for 0 <= y < y2 <= h and 0 <= x < x2 <= w
Slice(img, y, y2, x, x2) ==
    LET Sample(r, c) == img.px[y + r][x + c]
    IN  Arr(y2 - y, x2 - x, img.ch,
            [r \in 1..(y2 - y) |-> [c \in 1..(x2 - x) |-> Sample(r, c)]])

\* mutant: the array itself is handed on, no copy is made
CopyAliased(img) == img

\* img.copy()
Copy(img) == Arr(img.h, img.w, img.ch, img.px)

(***************************************************************************)
(* cv2 filters.  Their arithmetic is outside the repository; what the      *)
(* engine relies on is that each returns a new array of the shape of its   *)
(* input whose samples are a function of the input, the filter and the     *)
(* parameters it is handed.  The model keeps exactly that: every sample is *)
(* shifted by an amount fixed by the filter and its parameters.            *)
(***************************************************************************)
Filtered(img, shift) ==
    LET Sample(r, c) ==
            [k \in 1..img.ch |-> (img.px[r][c][k] + shift) % 256]
    IN  Arr(img.h, img.w, img.ch,
            [r \in 1..img.h |-> [c \in 1..img.w |-> Sample(r, c)]])

\* cv2.medianBlur(img, ksize)
medianBlur(img, ksize) == Filtered(img, ksize)

\* cv2.GaussianBlur(img, (ksize, ksize), sigmaX)
GaussianBlur(img, ksize, sigmaX) == Filtered(img, 2 * ksize + sigmaX)

\* cv2.bilateralFilter(img, d, sigmaColor, sigmaSpace)
bilateralFilter(img, d, sigmaColor, sigmaSpace) ==
    Filtered(img, 3 * d + sigmaColor + sigmaSpace)

\* cv2.warpAffine(img, [[1, 0, dx], [0, 1, dy]], (w, h), BORDER_REFLECT)
warpAffine(img, dx, dy) ==
    LET Reflect(i, n) ==
            LET m == i % (2 * n) IN IF m < n THEN m ELSE 2 * n - 1 - m
        Sample(r, c) ==
            img.px[Reflect(r - 1 - dy, img.h) + 1][Reflect(c - 1 - dx, img.w) + 1]
    IN  Arr(img.h, img.w, img.ch,
            [r \in 1..img.h |-> [c \in 1..img.w |-> Sample(r, c)]])

\* cv2.equalizeHist(img) on a single-channel array
equalizeHist(img) == Filtered(img, 128)

\* BGR -> YCrCb, equalizeHist on Y, merge, YCrCb -> BGR
equalizeLuma(img) == Filtered(img, 64)

(***************************************************************************)
(* ProcessingManager: queries.                                             *)
(***************************************************************************)
\* the tag of entry 0 (load_original)
OriginalTag == "原图"

\* the entry at Python index i of a list
At(list, i) == list[i + 1]

\* list[:n] for n >= 0
Prefix(list, n) == IF n >= Len(list) THEN list ELSE SubSeq(list, 1, n)

has_image == current_index >= 0 /\ Len(history) > 0

get_current_img == IF ~has_image THEN NoImg ELSE At(history, current_index)

\* get_current_display_name for a given name and current tag (the source's
\* full-width brackets and its word for "step" are written in ASCII)
DisplayName(name, tag) ==
    LET base == IF name # None /\ name[1] # "" THEN name[1] \o ".png"
                ELSE "unknown.png"
    IN  IF tag = OriginalTag THEN base
        ELSE base \o "(step: " \o tag \o ")"

get_current_display_name ==
    IF ~has_image THEN "no image"
    ELSE DisplayName(original_name, At(history_tags, current_index))

\* os.path.join(PREPROCESSED_IMAGE_DIR, file)
SavedPath(file) == PREPROCESSED_IMAGE_DIR \o "/" \o file

get_current_saved_path ==
    IF ~has_image THEN None
    ELSE IF At(history_files, current_index) = "" THEN None
    ELSE Some(SavedPath(At(history_files, current_index)))

\* mutant: undo allowed at the original as well
can_undo_at_zero == current_index >= 0

can_undo == current_index > 0

\* mutant: the last entry cannot be reached by redo
can_redo_off_by_one == current_index < Len(history) - 2

can_redo == current_index < Len(history) - 1

(***************************************************************************)
(* Outcomes of a call.  out is "dict" (a result dictionary), "array",      *)
(* "None" or "raise"; keys a dictionary does not carry are "".             *)
(***************************************************************************)
Returned(op, img, display_name, saved_path, tag) ==
    [op |-> op, out |-> "dict", exc |-> "", msg |-> "", img |-> img,
     display_name |-> display_name, saved_path |-> saved_path, tag |-> tag]

ReturnedNone(op) ==
    [op |-> op, out |-> "None", exc |-> "", msg |-> "", img |-> NoImg,
     display_name |-> "", saved_path |-> "", tag |-> ""]

ReturnedArray(op, img) ==
    [op |-> op, out |-> "array", exc |-> "", msg |-> "", img |-> img,
     display_name |-> "", saved_path |-> "", tag |-> ""]

Raised(op, exc, msg) ==
    [op |-> op, out |-> "raise", exc |-> exc, msg |-> msg, img |-> NoImg,
     display_name |-> "", saved_path |-> "", tag |-> ""]

\* the call ends by raising: nothing but the outcome changes
Raise(op, exc, msg) ==
    /\ ret' = Raised(op, exc, msg)
    /\ UNCHANGED <<original_path, original_name, history, history_tags,
                   history_files, current_index, disk, next_oid>>

\* the message of the ValueError at the head of every apply_* (in English)
NoImageMsg == "no image to process"

(***************************************************************************)
(* ProcessingManager.__init__                                              *)
(***************************************************************************)
ManagerInit ==
    /\ original_path = None
    /\ original_name = None
    /\ history = <<>>
    /\ history_tags = <<>>
    /\ history_files = <<>>
    /\ current_index = -1
    /\ disk = <<>>
    /\ next_oid = 0
    /\ ret = ReturnedNone("__init__")
    /\ dropped = {}

(***************************************************************************)
(* ProcessingManager.load_original                                         *)
(***************************************************************************)
\* mutant: the lists are appended to instead of being reset
load_original_append(path) ==
    LET loaded == load_image(path)
        img    == WithOid(loaded.img, next_oid)
        name   == SplitextRoot(Basename(path))
    IN  IF loaded.exc # ""
        THEN Raise("load_original", loaded.exc, "cannot read image file")
        ELSE IF loaded.img = NoImg \/ Size(loaded.img) = 0
        THEN Raise("load_original", "ValueError", "loaded image is empty")
        ELSE /\ next_oid < driver.budget
             /\ next_oid' = next_oid + 1
             /\ original_path' = Some(path)
             /\ original_name' = Some(name)
             /\ history' = Append(history, img)
             /\ history_tags' = Append(history_tags, OriginalTag)
             /\ history_files' = Append(history_files, "")
             /\ current_index' = Len(history') - 1
             /\ ret' = Returned("load_original", img,
                                DisplayName(Some(name), OriginalTag), "", "")
             /\ UNCHANGED disk

\* mutant: the lists are cleared before the file is decoded
load_original_reset_first(path) ==
    LET loaded == load_image(path)
        img    == WithOid(loaded.img, next_oid)
        name   == SplitextRoot(Basename(path))
        Fail(exc, msg) ==
            /\ ret' = Raised("load_original", exc, msg)
            /\ history' = <<>>
            /\ history_tags' = <<>>
            /\ history_files' = <<>>
            /\ current_index' = -1
            /\ UNCHANGED <<original_path, original_name, disk, next_oid>>
    IN  IF loaded.exc # ""
        THEN Fail(loaded.exc, "cannot read image file")
        ELSE IF loaded.img = NoImg \/ Size(loaded.img) = 0
        THEN Fail("ValueError", "loaded image is empty")
        ELSE /\ next_oid < driver.budget
             /\ next_oid' = next_oid + 1
             /\ original_path' = Some(path)
             /\ original_name' = Some(name)
             /\ history' = <<img>>
             /\ history_tags' = <<OriginalTag>>
             /\ history_files' = <<"">>
             /\ current_index' = 0
             /\ ret' = Returned("load_original", img,
                                DisplayName(Some(name), OriginalTag), "", "")
             /\ UNCHANGED disk

\* mutant: the path and the name are recorded before the file is decoded
load_original_path_first(path) ==
    LET loaded == load_image(path)
        img    == WithOid(loaded.img, next_oid)
        name   == SplitextRoot(Basename(path))
        Fail(exc, msg) ==
            /\ ret' = Raised("load_original", exc, msg)
            /\ original_path' = Some(path)
            /\ original_name' = Some(name)
            /\ UNCHANGED <<history, history_tags, history_files,
                           current_index, disk, next_oid>>
    IN  IF loaded.exc # ""
        THEN Fail(loaded.exc, "cannot read image file")
        ELSE IF loaded.img = NoImg \/ Size(loaded.img) = 0
        THEN Fail("ValueError", "loaded image is empty")
        ELSE /\ next_oid < driver.budget
             /\ next_oid' = next_oid + 1
             /\ original_path' = Some(path)
             /\ original_name' = Some(name)
             /\ history' = <<img>>
             /\ history_tags' = <<OriginalTag>>
             /\ history_files' = <<"">>
             /\ current_index' = 0
             /\ ret' = Returned("load_original", img,
                                DisplayName(Some(name), OriginalTag), "", "")
             /\ UNCHANGED disk

load_original(path) ==
    LET loaded == load_image(path)
        img    == WithOid(loaded.img, next_oid)
        name   == SplitextRoot(Basename(path))
    IN  IF loaded.exc # ""
        THEN Raise("load_original", loaded.exc, "cannot read image file")
        ELSE IF loaded.img = NoImg \/ Size(loaded.img) = 0
        THEN Raise("load_original", "ValueError", "loaded image is empty")
        ELSE /\ next_oid < driver.budget
             /\ next_oid' = next_oid + 1
             /\ original_path' = Some(path)
             /\ original_name' = Some(name)
             /\ history' = <<img>>
             /\ history_tags' = <<OriginalTag>>
             /\ history_files' = <<"">>
             /\ current_index' = 0
             /\ ret' = Returned("load_original", img,
                                DisplayName(Some(name), OriginalTag), "", "")
             /\ UNCHANGED disk

(***************************************************************************)
(* ProcessingManager.undo / redo / get_image_at_step                       *)
(***************************************************************************)
\* the dictionary undo / redo build once the pointer stands at idx:
\* get_current_img() and get_current_display_name() in the new state
MovedTo(op, idx) ==
    IF idx < 0 \/ Len(history) = 0
    THEN Returned(op, NoImg, "no image", "", "")
    ELSE IF idx >= Len(history)
    THEN Raised(op, "IndexError", "list index out of range")
    ELSE Returned(op, At(history, idx),
                  DisplayName(original_name, At(history_tags, idx)), "", "")

\* mutant: undo guarded by has_image instead of can_undo
undo_unguarded ==
    IF ~has_image
    THEN /\ ret' = ReturnedNone("undo")
         /\ UNCHANGED <<original_path, original_name, history, history_tags,
                        history_files, current_index, disk, next_oid>>
    ELSE /\ current_index' = current_index - 1
         /\ ret' = MovedTo("undo", current_index - 1)
         /\ UNCHANGED <<original_path, original_name, history, history_tags,
                        history_files, disk, next_oid>>

\* mutant: undo pops the entries it steps back over
undo_pop ==
    IF ~can_undo
    THEN /\ ret' = ReturnedNone("undo")
         /\ UNCHANGED <<original_path, original_name, history, history_tags,
                        history_files, current_index, disk, next_oid>>
    ELSE /\ current_index' = current_index - 1
         /\ history' = Prefix(history, current_index)
         /\ history_tags' = Prefix(history_tags, current_index)
         /\ history_files' = Prefix(history_files, current_index)
         /\ ret' = MovedTo("undo", current_index - 1)
         /\ UNCHANGED <<original_path, original_name, disk, next_oid>>

undo ==
    IF ~can_undo
    THEN /\ ret' = ReturnedNone("undo")
         /\ UNCHANGED <<original_path, original_name, history, history_tags,
                        history_files, current_index, disk, next_oid>>
    ELSE /\ current_index' = current_index - 1
         /\ ret' = MovedTo("undo", current_index - 1)
         /\ UNCHANGED <<original_path, original_name, history, history_tags,
                        history_files, disk, next_oid>>

\* mutant: redo jumps to the last entry
redo_to_last ==
    IF ~can_redo
    THEN /\ ret' = ReturnedNone("redo")
         /\ UNCHANGED <<original_path, original_name, history, history_tags,
                        history_files, current_index, disk, next_oid>>
    ELSE /\ current_index' = Len(history) - 1
         /\ ret' = MovedTo("redo", Len(history) - 1)
         /\ UNCHANGED <<original_path, original_name, history, history_tags,
                        history_files, disk, next_oid>>

redo ==
    IF ~can_redo
    THEN /\ ret' = ReturnedNone("redo")
         /\ UNCHANGED <<original_path, original_name, history, history_tags,
                        history_files, current_index, disk, next_oid>>
    ELSE /\ current_index' = current_index + 1
         /\ ret' = MovedTo("redo", current_index + 1)
         /\ UNCHANGED <<original_path, original_name, history, history_tags,
                        history_files, disk, next_oid>>

\* mutant: only the upper end of the range is tested, so that a negative
\* index counts from the end of the list, or is out of range
get_image_at_step_upper_only(index) ==
    /\ ret' = IF index < Len(history)
              THEN IF index >= 0
                   THEN ReturnedArray("get_image_at_step", At(history, index))
                   ELSE IF index + Len(history) >= 0
                   THEN ReturnedArray("get_image_at_step",
                                      At(history, index + Len(history)))
                   ELSE Raised("get_image_at_step", "IndexError",
                               "list index out of range")
              ELSE ReturnedNone("get_image_at_step")
    /\ UNCHANGED <<original_path, original_name, history, history_tags,
                   history_files, current_index, disk, next_oid>>

get_image_at_step(index) ==
    /\ ret' = IF 0 <= index /\ index < Len(history)
              THEN ReturnedArray("get_image_at_step", At(history, index))
              ELSE ReturnedNone("get_image_at_step")
    /\ UNCHANGED <<original_path, original_name, history, history_tags,
                   history_files, current_index, disk, next_oid>>

(***************************************************************************)
(* ProcessingManager._save_step_image / _push_history                      *)
(***************************************************************************)
\* what cv2.imwrite can do: write the file, return False, or raise
WriteOutcomes == {"ok", "false", "raise"}

base_name == IF original_name = None THEN "image" ELSE original_name[1]

\* step_index = len(self._history)
step_index == Len(history)

\* tag.replace(" ", "").replace("(", "").replace(")", "")
safe_tag(tag) == Remove(Remove(Remove(tag, " "), "("), ")")

\* f"{base_name}_step{step_index}_{safe_tag}.png"
StepFileName(base, step, tag) ==
    base \o "_step" \o ToString(step) \o "_" \o safe_tag(tag) \o ".png"

\* the file name _save_step_image returns for a tag
save_step_filename(tag) == StepFileName(base_name, step_index, tag)

\* cv2.imwrite(save_path, img) when it does not raise
imwrite(save_path, img, io) ==
    disk' = IF io = "ok" THEN (save_path :> Content(img)) @@ disk ELSE disk

\* mutant: the new entry is appended without dropping the redoable tail
_push_history_no_truncate(img, tag, saved_file) ==
    /\ history' = Append(history, img)
    /\ history_tags' = Append(history_tags, tag)
    /\ history_files' = Append(history_files, saved_file)
    /\ current_index' = Len(history') - 1

\* list[n:] for n >= 0
Suffix(list, n) == SubSeq(list, n + 1, Len(list))

\* mutant: the new entry is inserted after the pointer, the tail is kept
_push_history_keep_tail(img, tag, saved_file) ==
    /\ history' = Append(Prefix(history, current_index + 1), img)
                      \o Suffix(history, current_index + 1)
    /\ history_tags' = Append(Prefix(history_tags, current_index + 1), tag)
                           \o Suffix(history_tags, current_index + 1)
    /\ history_files' =
           Append(Prefix(history_files, current_index + 1), saved_file)
               \o Suffix(history_files, current_index + 1)
    /\ current_index' = current_index + 1

\* mutant: the entry is pushed without the name of its file
_push_history_unsaved(img, tag, saved_file) ==
    /\ history' = Append(Prefix(history, current_index + 1), img)
    /\ history_tags' = Append(Prefix(history_tags, current_index + 1), tag)
    /\ history_files' = Append(Prefix(history_files, current_index + 1), "")
    /\ current_index' = Len(history') - 1

\* mutant: the list is cut at the pointer, the current entry included
_push_history_drop_current(img, tag, saved_file) ==
    /\ history' = Append(Prefix(history, current_index), img)
    /\ history_tags' = Append(Prefix(history_tags, current_index), tag)
    /\ history_files' =
           Append(Prefix(history_files, current_index), saved_file)
    /\ current_index' = Len(history') - 1

\* mutant: the list of file names is appended to without being cut
_push_history_files_uncut(img, tag, saved_file) ==
    /\ history' = Append(Prefix(history, current_index + 1), img)
    /\ history_tags' = Append(Prefix(history_tags, current_index + 1), tag)
    /\ history_files' = Append(history_files, saved_file)
    /\ current_index' = Len(history') - 1

_push_history(img, tag, saved_file) ==
    /\ history' = Append(Prefix(history, current_index + 1), img)
    /\ history_tags' = Append(Prefix(history_tags, current_index + 1), tag)
    /\ history_files' =
           Append(Prefix(history_files, current_index + 1), saved_file)
    /\ current_index' = Len(history') - 1

\* the common tail of every apply_*: save the new array, push it, return
\*     saved_file = self._save_step_image(out, tag)
\*     self._push_history(out, tag, saved_file)
\*     return {...}
\* mutant: the transform writes its result into the array it was given, and
\* that array is pushed
SaveAndPushInPlace(op, out, tag, io) ==
    LET img        == WithOid(out, get_current_img.oid)
        saved_file == save_step_filename(tag)
    IN  /\ next_oid < driver.budget
        /\ IF io = "raise"
           THEN Raise(op, "cv2.error", "imwrite")
           ELSE /\ imwrite(SavedPath(saved_file), img, io)
                /\ history' = Append(Append(Prefix(history, current_index),
                                            img), img)
                /\ history_tags' =
                       Append(Prefix(history_tags, current_index + 1), tag)
                /\ history_files' =
                       Append(Prefix(history_files, current_index + 1),
                              saved_file)
                /\ current_index' = Len(history') - 1
                /\ next_oid' = next_oid + 1
                /\ ret' = Returned(op, img, DisplayName(original_name, tag),
                                   SavedPath(saved_file), tag)
                /\ UNCHANGED <<original_path, original_name>>

\* (out is a new object, unless the transform handed on an array that
\* exists already: that one keeps its identity)
SaveAndPush(op, out, tag, io) ==
    LET img        == IF out.oid = NoImg.oid THEN WithOid(out, next_oid)
                      ELSE out
        saved_file == save_step_filename(tag)
    IN  /\ next_oid < driver.budget
        /\ IF io = "raise"
           THEN Raise(op, "cv2.error", "imwrite")
           ELSE /\ imwrite(SavedPath(saved_file), img, io)
                /\ _push_history(img, tag, saved_file)
                /\ next_oid' = next_oid + 1
                /\ ret' = Returned(op, img, DisplayName(original_name, tag),
                                   SavedPath(saved_file), tag)
                /\ UNCHANGED <<original_path, original_name>>

(***************************************************************************)
(* ProcessingManager.apply_*                                               *)
(***************************************************************************)
\* mutant: a kernel size of 0 or less is not replaced by 3
apply_denoise_nonpositive_kept(method, ksize, sigmaX, bilateral_d, sigma_color, sigma_space, io) ==
    LET img == get_current_img
        k1  == ksize
        k   == IF k1 % 2 = 0 THEN k1 + 1 ELSE k1
    IN  IF img = NoImg
        THEN Raise("apply_denoise", "ValueError", NoImageMsg)
        ELSE IF method = "median"
        THEN SaveAndPush("apply_denoise", medianBlur(img, k),
                         "D_median" \o ToString(k), io)
        ELSE IF method = "gaussian"
        THEN SaveAndPush("apply_denoise",
                         GaussianBlur(img, k, IF sigmaX > 0 THEN sigmaX ELSE 0),
                         "D_gauss" \o ToString(k), io)
        ELSE IF method = "bilateral"
        THEN SaveAndPush("apply_denoise",
                         bilateralFilter(img, bilateral_d, sigma_color, sigma_space),
                         "D_bilat" \o ToString(bilateral_d), io)
        ELSE Raise("apply_denoise", "ValueError", "unsupported denoise method")

\* mutant: an even kernel size is handed to the filter as it is
apply_denoise_even_kernel_kept(method, ksize, sigmaX, bilateral_d, sigma_color, sigma_space, io) ==
    LET img == get_current_img
        k1  == IF ksize <= 0 THEN 3 ELSE ksize
        k   == k1
    IN  IF img = NoImg
        THEN Raise("apply_denoise", "ValueError", NoImageMsg)
        ELSE IF method = "median"
        THEN SaveAndPush("apply_denoise", medianBlur(img, k),
                         "D_median" \o ToString(k), io)
        ELSE IF method = "gaussian"
        THEN SaveAndPush("apply_denoise",
                         GaussianBlur(img, k, IF sigmaX > 0 THEN sigmaX ELSE 0),
                         "D_gauss" \o ToString(k), io)
        ELSE IF method = "bilateral"
        THEN SaveAndPush("apply_denoise",
                         bilateralFilter(img, bilateral_d, sigma_color, sigma_space),
                         "D_bilat" \o ToString(bilateral_d), io)
        ELSE Raise("apply_denoise", "ValueError", "unsupported denoise method")

apply_denoise(method, ksize, sigmaX, bilateral_d, sigma_color, sigma_space, io) ==
    LET img == get_current_img
        k1  == IF ksize <= 0 THEN 3 ELSE ksize
        k   == IF k1 % 2 = 0 THEN k1 + 1 ELSE k1
    IN  IF img = NoImg
        THEN Raise("apply_denoise", "ValueError", NoImageMsg)
        ELSE IF method = "median"
        THEN SaveAndPush("apply_denoise", medianBlur(img, k),
                         "D_median" \o ToString(k), io)
        ELSE IF method = "gaussian"
        THEN SaveAndPush("apply_denoise",
                         GaussianBlur(img, k, IF sigmaX > 0 THEN sigmaX ELSE 0),
                         "D_gauss" \o ToString(k), io)
        ELSE IF method = "bilateral"
        THEN SaveAndPush("apply_denoise",
                         bilateralFilter(img, bilateral_d, sigma_color, sigma_space),
                         "D_bilat" \o ToString(bilateral_d), io)
        ELSE Raise("apply_denoise", "ValueError", "unsupported denoise method")

\* mutant: the redoable tail is dropped before the geometry is checked
apply_crop_truncate_first(x, y, w, h, io) ==
    LET img   == get_current_img
        h_img == img.h
        w_img == img.w
        x0    == IF x > 0 THEN x ELSE 0
        y0    == IF y > 0 THEN y ELSE 0
        x2    == IF w_img < x0 + w THEN w_img ELSE x0 + w
        y2    == IF h_img < y0 + h THEN h_img ELSE y0 + h
        Fail(msg) ==
            /\ ret' = Raised("apply_crop", "ValueError", msg)
            /\ history' = Prefix(history, current_index + 1)
            /\ history_tags' = Prefix(history_tags, current_index + 1)
            /\ history_files' = Prefix(history_files, current_index + 1)
            /\ UNCHANGED <<original_path, original_name, current_index,
                           disk, next_oid>>
    IN  IF img = NoImg
        THEN Raise("apply_crop", "ValueError", NoImageMsg)
        ELSE IF w <= 0 \/ h <= 0
        THEN Fail("crop width/height must be positive")
        ELSE IF x0 >= w_img \/ y0 >= h_img
        THEN Fail("crop origin outside the image")
        ELSE IF x2 <= x0 \/ y2 <= y0
        THEN Fail("crop region invalid")
        ELSE SaveAndPush("apply_crop", Slice(img, y0, y2, x0, x2),
                         "Cr_" \o ToString(x0) \o "_" \o ToString(y0) \o "_"
                               \o ToString(x2 - x0) \o "x" \o ToString(y2 - y0),
                         io)

\* mutant: the width and height are validated before the image is looked at
apply_crop_params_first(x, y, w, h, io) ==
    LET img   == get_current_img
        h_img == img.h
        w_img == img.w
        x0    == IF x > 0 THEN x ELSE 0
        y0    == IF y > 0 THEN y ELSE 0
        x2    == IF w_img < x0 + w THEN w_img ELSE x0 + w
        y2    == IF h_img < y0 + h THEN h_img ELSE y0 + h
    IN  IF w <= 0 \/ h <= 0
        THEN Raise("apply_crop", "ValueError", "crop width/height must be positive")
        ELSE IF img = NoImg
        THEN Raise("apply_crop", "ValueError", NoImageMsg)
        ELSE IF x0 >= w_img \/ y0 >= h_img
        THEN Raise("apply_crop", "ValueError", "crop origin outside the image")
        ELSE IF x2 <= x0 \/ y2 <= y0
        THEN Raise("apply_crop", "ValueError", "crop region invalid")
        ELSE SaveAndPush("apply_crop", Slice(img, y0, y2, x0, x2),
                         "Cr_" \o ToString(x0) \o "_" \o ToString(y0) \o "_"
                               \o ToString(x2 - x0) \o "x" \o ToString(y2 - y0),
                         io)

\* mutant: height and width are taken from img.shape in the wrong order;
\* a slice that runs past an edge is cut there, as numpy cuts it
apply_crop_shape_swapped(x, y, w, h, io) ==
    LET img   == get_current_img
        h_img == img.w
        w_img == img.h
        x0    == IF x > 0 THEN x ELSE 0
        y0    == IF y > 0 THEN y ELSE 0
        x2    == IF w_img < x0 + w THEN w_img ELSE x0 + w
        y2    == IF h_img < y0 + h THEN h_img ELSE y0 + h
    IN  IF img = NoImg
        THEN Raise("apply_crop", "ValueError", NoImageMsg)
        ELSE IF w <= 0 \/ h <= 0
        THEN Raise("apply_crop", "ValueError", "crop width/height must be positive")
        ELSE IF x0 >= w_img \/ y0 >= h_img
        THEN Raise("apply_crop", "ValueError", "crop origin outside the image")
        ELSE IF x2 <= x0 \/ y2 <= y0
        THEN Raise("apply_crop", "ValueError", "crop region invalid")
        ELSE SaveAndPush("apply_crop",
                         Slice(img, Min({y0, img.h}), Min({y2, img.h}),
                                    Min({x0, img.w}), Min({x2, img.w})),
                         "Cr_" \o ToString(x0) \o "_" \o ToString(y0) \o "_"
                               \o ToString(x2 - x0) \o "x" \o ToString(y2 - y0),
                         io)

\* mutant: the far edges are computed from the origin as requested, before
\* it is clamped
apply_crop_clip_before_clamp(x, y, w, h, io) ==
    LET img   == get_current_img
        h_img == img.h
        w_img == img.w
        x0    == IF x > 0 THEN x ELSE 0
        y0    == IF y > 0 THEN y ELSE 0
        x2    == IF w_img < x + w THEN w_img ELSE x + w
        y2    == IF h_img < y + h THEN h_img ELSE y + h
    IN  IF img = NoImg
        THEN Raise("apply_crop", "ValueError", NoImageMsg)
        ELSE IF w <= 0 \/ h <= 0
        THEN Raise("apply_crop", "ValueError", "crop width/height must be positive")
        ELSE IF x0 >= w_img \/ y0 >= h_img
        THEN Raise("apply_crop", "ValueError", "crop origin outside the image")
        ELSE IF x2 <= x0 \/ y2 <= y0
        THEN Raise("apply_crop", "ValueError", "crop region invalid")
        ELSE SaveAndPush("apply_crop", Slice(img, y0, y2, x0, x2),
                         "Cr_" \o ToString(x0) \o "_" \o ToString(y0) \o "_"
                               \o ToString(x2 - x0) \o "x" \o ToString(y2 - y0),
                         io)

\* mutant: an origin beyond the far edge is pulled back to the last column
\* or row, as an origin before the near edge is pushed to 0
apply_crop_clamp_far_origin(x, y, w, h, io) ==
    LET img   == get_current_img
        h_img == img.h
        w_img == img.w
        x0    == Min({Max({0, x}), Max({0, w_img - 1})})
        y0    == Min({Max({0, y}), Max({0, h_img - 1})})
        x2    == IF w_img < x0 + w THEN w_img ELSE x0 + w
        y2    == IF h_img < y0 + h THEN h_img ELSE y0 + h
    IN  IF img = NoImg
        THEN Raise("apply_crop", "ValueError", NoImageMsg)
        ELSE IF w <= 0 \/ h <= 0
        THEN Raise("apply_crop", "ValueError", "crop width/height must be positive")
        ELSE IF x0 >= w_img \/ y0 >= h_img
        THEN Raise("apply_crop", "ValueError", "crop origin outside the image")
        ELSE IF x2 <= x0 \/ y2 <= y0
        THEN Raise("apply_crop", "ValueError", "crop region invalid")
        ELSE SaveAndPush("apply_crop", Slice(img, y0, y2, x0, x2),
                         "Cr_" \o ToString(x0) \o "_" \o ToString(y0) \o "_"
                               \o ToString(x2 - x0) \o "x" \o ToString(y2 - y0),
                         io)

\* mutant: the far edges are taken as the last column and row, not one past
apply_crop_far_edge_inclusive(x, y, w, h, io) ==
    LET img   == get_current_img
        h_img == img.h
        w_img == img.w
        x0    == IF x > 0 THEN x ELSE 0
        y0    == IF y > 0 THEN y ELSE 0
        x2    == IF w_img - 1 < x0 + w THEN w_img - 1 ELSE x0 + w
        y2    == IF h_img - 1 < y0 + h THEN h_img - 1 ELSE y0 + h
    IN  IF img = NoImg
        THEN Raise("apply_crop", "ValueError", NoImageMsg)
        ELSE IF w <= 0 \/ h <= 0
        THEN Raise("apply_crop", "ValueError", "crop width/height must be positive")
        ELSE IF x0 >= w_img \/ y0 >= h_img
        THEN Raise("apply_crop", "ValueError", "crop origin outside the image")
        ELSE IF x2 <= x0 \/ y2 <= y0
        THEN Raise("apply_crop", "ValueError", "crop region invalid")
        ELSE SaveAndPush("apply_crop", Slice(img, y0, y2, x0, x2),
                         "Cr_" \o ToString(x0) \o "_" \o ToString(y0) \o "_"
                               \o ToString(x2 - x0) \o "x" \o ToString(y2 - y0),
                         io)

apply_crop(x, y, w, h, io) ==
    LET img   == get_current_img
        h_img == img.h
        w_img == img.w
        x0    == IF x > 0 THEN x ELSE 0
        y0    == IF y > 0 THEN y ELSE 0
        x2    == IF w_img < x0 + w THEN w_img ELSE x0 + w
        y2    == IF h_img < y0 + h THEN h_img ELSE y0 + h
    IN  IF img = NoImg
        THEN Raise("apply_crop", "ValueError", NoImageMsg)
        ELSE IF w <= 0 \/ h <= 0
        THEN Raise("apply_crop", "ValueError", "crop width/height must be positive")
        ELSE IF x0 >= w_img \/ y0 >= h_img
        THEN Raise("apply_crop", "ValueError", "crop origin outside the image")
        ELSE IF x2 <= x0 \/ y2 <= y0
        THEN Raise("apply_crop", "ValueError", "crop region invalid")
        ELSE SaveAndPush("apply_crop", Slice(img, y0, y2, x0, x2),
                         "Cr_" \o ToString(x0) \o "_" \o ToString(y0) \o "_"
                               \o ToString(x2 - x0) \o "x" \o ToString(y2 - y0),
                         io)

apply_align(dx, dy, io) ==
    LET img == get_current_img
    IN  IF img = NoImg
        THEN Raise("apply_align", "ValueError", NoImageMsg)
        ELSE SaveAndPush("apply_align", warpAffine(img, dx, dy),
                         "A_" \o ToString(dx) \o "_" \o ToString(dy), io)

apply_color_convert(mode, io) ==
    LET img == get_current_img
    IN  IF img = NoImg
        THEN Raise("apply_color_convert", "ValueError", NoImageMsg)
        ELSE IF mode = "gray"
        THEN SaveAndPush("apply_color_convert",
                         IF Ndim(img) = 2 THEN Copy(img) ELSE BGR2GRAY(img),
                         "C_toGray", io)
        ELSE IF mode = "rgb"
        THEN SaveAndPush("apply_color_convert",
                         IF Ndim(img) = 3 THEN Copy(img) ELSE GRAY2BGR(img),
                         "C_toRGB", io)
        ELSE Raise("apply_color_convert", "ValueError", "unsupported colour mode")

\* mutant: the angle is compared as given, not reduced modulo 360
apply_rotate_unreduced(angle, io) ==
    LET img == get_current_img
        a   == angle
    IN  IF img = NoImg
        THEN Raise("apply_rotate", "ValueError", NoImageMsg)
        ELSE IF a = 90
        THEN SaveAndPush("apply_rotate", ROTATE_90_CLOCKWISE(img), "R_90", io)
        ELSE IF a = 180
        THEN SaveAndPush("apply_rotate", ROTATE_180(img), "R_180", io)
        ELSE IF a = 270
        THEN SaveAndPush("apply_rotate", ROTATE_90_COUNTERCLOCKWISE(img),
                         "R_270", io)
        ELSE Raise("apply_rotate", "ValueError", "only 90/180/270 supported")

\* mutant: the rotate codes of 90 and 180 degrees are exchanged
apply_rotate_codes_exchanged(angle, io) ==
    LET img == get_current_img
        a   == angle % 360
    IN  IF img = NoImg
        THEN Raise("apply_rotate", "ValueError", NoImageMsg)
        ELSE IF a = 90
        THEN SaveAndPush("apply_rotate", ROTATE_180(img), "R_90", io)
        ELSE IF a = 180
        THEN SaveAndPush("apply_rotate", ROTATE_90_CLOCKWISE(img), "R_180", io)
        ELSE IF a = 270
        THEN SaveAndPush("apply_rotate", ROTATE_90_COUNTERCLOCKWISE(img),
                         "R_270", io)
        ELSE Raise("apply_rotate", "ValueError", "only 90/180/270 supported")

apply_rotate(angle, io) ==
    LET img == get_current_img
        a   == angle % 360
    IN  IF img = NoImg
        THEN Raise("apply_rotate", "ValueError", NoImageMsg)
        ELSE IF a = 90
        THEN SaveAndPush("apply_rotate", ROTATE_90_CLOCKWISE(img), "R_90", io)
        ELSE IF a = 180
        THEN SaveAndPush("apply_rotate", ROTATE_180(img), "R_180", io)
        ELSE IF a = 270
        THEN SaveAndPush("apply_rotate", ROTATE_90_COUNTERCLOCKWISE(img),
                         "R_270", io)
        ELSE Raise("apply_rotate", "ValueError", "only 90/180/270 supported")

apply_flip(mode, io) ==
    LET img == get_current_img
    IN  IF img = NoImg
        THEN Raise("apply_flip", "ValueError", NoImageMsg)
        ELSE IF mode = "h"
        THEN SaveAndPush("apply_flip", FlipHorizontal(img), "F_h", io)
        ELSE IF mode = "v"
        THEN SaveAndPush("apply_flip", FlipVertical(img), "F_v", io)
        ELSE Raise("apply_flip", "ValueError", "flip mode must be h or v")

apply_hist_equalize(io) ==
    LET img == get_current_img
    IN  IF img = NoImg
        THEN Raise("apply_hist_equalize", "ValueError", NoImageMsg)
        ELSE SaveAndPush("apply_hist_equalize",
                         IF Ndim(img) = 2 THEN equalizeHist(img)
                         ELSE equalizeLuma(img),
                         "HEq", io)

(***************************************************************************)
(* core/preprocessing.py: Preprocessor.                                    *)
(***************************************************************************)
\* the methods class Preprocessor defines
PreprocessorMethods ==
    {"__init__", "denoise", "align", "crop", "convert_format", "run"}

Preprocessor_denoise(img) ==
    IF img = NoImg \/ Size(img) = 0 THEN img ELSE medianBlur(img, 3)

Preprocessor_align(img) == img

Preprocessor_crop(img) ==
    IF img = NoImg THEN img
    ELSE IF img.h < 20 \/ img.w < 20 THEN img
    ELSE Slice(img, img.h \div 10, (img.h * 9) \div 10,
                    img.w \div 10, (img.w * 9) \div 10)

Preprocessor_convert_format(img) == img

\* Preprocessor.run: [exc, img]
Preprocessor_run(img, do_denoise, do_align, do_crop, do_convert) ==
    IF img = NoImg \/ Size(img) = 0
    THEN [exc |-> "ValueError", img |-> NoImg]
    ELSE LET out1 == IF do_denoise THEN Preprocessor_denoise(img) ELSE img
             out2 == IF do_align THEN Preprocessor_align(out1) ELSE out1
             out3 == IF do_crop THEN Preprocessor_crop(out2) ELSE out2
             out4 == IF do_convert THEN Preprocessor_convert_format(out3)
                     ELSE out3
         IN  [exc |-> "", img |-> out4]

(***************************************************************************)
(* core/pipeline.py: ImageProcessingPipeline.  pipeline.state is           *)
(* self.state (by the name of the State member); the other fields are the  *)
(* frame of the call of run in progress, or of the last one: pc is the     *)
(* statement to execute next ("none" before the first call, "done" once    *)
(* the call has returned or raised), out / exc how the call ended.         *)
(* The arrow of the log lines is written "->".                             *)
(***************************************************************************)
\* gui/qt_app.py and gui/text_analysis_widget.py after construction: both
\* history buttons disabled, the text fields empty, no worker ever created
\* (workers lists every _NLPWorker created, _worker is the position of the
\* one the widget refers to, 0 for None), no signal waiting in the event
\* queue of the main thread
GuiInit ==
    [btn_undo |-> FALSE, btn_redo |-> FALSE, text_input |-> <<>>,
     text_output |-> <<>>, workers |-> <<>>, _worker |-> 0, queue |-> <<>>,
     handler |-> ""]

NoMetadata == [width |-> 0, height |-> 0]

PipelineInit ==
    [state |-> "IDLE", pc |-> "none", started_in |-> "", image_path |-> "",
     save_output |-> FALSE, image |-> NoImg, metadata |-> NoMetadata,
     processed_img |-> NoImg, annotations |-> <<>>, ai_result |-> "",
     save_path |-> None, logs |-> <<>>, out |-> "", exc |-> ""]

\* metadata_utils.parse_metadata: the fields computed from the image
parse_metadata(image) == [width |-> image.w, height |-> image.h]

\* AnnotationManager.auto_generate_dummy: one record, named by its id
auto_generate_dummy == <<"IMG000001_001">>

\* SimpleAIDiagnosis.predict: the conclusion
predict(img, metadata, annotations) ==
    IF annotations # <<>> THEN "suspicious" ELSE "no abnormality"

\* io_utils.save_processed_image: the path it writes to
processed_save_path(path) ==
    SavedPath(SplitextRoot(Basename(path)) \o "_processed.png")

\* the manager and the caller's script are not touched by the pipeline
ManagerUnchanged ==
    UNCHANGED <<original_path, original_name, history, history_tags,
                history_files, current_index, next_oid, ret, dropped, driver,
                gui>>

\* mutant: run refuses to start unless self.state is IDLE
run_only_when_idle(image_path, save_output) ==
    /\ pipeline.pc \in {"none", "done"}
    /\ pipeline.state = "IDLE"
    /\ pipeline' = [PipelineInit EXCEPT !.state = pipeline.state,
                                        !.started_in = pipeline.state,
                                        !.pc = "enter_import",
                                        !.image_path = image_path,
                                        !.save_output = save_output]
    /\ UNCHANGED disk
    /\ ManagerUnchanged

\* a call of ImageProcessingPipeline.run: a new frame, self.state as it is
run(image_path, save_output) ==
    /\ pipeline.pc \in {"none", "done"}
    /\ pipeline' = [PipelineInit EXCEPT !.state = pipeline.state,
                                        !.started_in = pipeline.state,
                                        !.pc = "enter_import",
                                        !.image_path = image_path,
                                        !.save_output = save_output]
    /\ UNCHANGED disk
    /\ ManagerUnchanged

\* the frame after the statement at pc, cv2.imwrite having the outcome io
RunStatement(io) ==
    LET p == pipeline
        Enter(line, state, pc) ==
            [p EXCEPT !.logs = Append(@, line), !.state = state, !.pc = pc]
        Fail(exc) == [p EXCEPT !.pc = "done", !.out = "raise", !.exc = exc]
    IN  CASE p.pc = "enter_import" ->
                 Enter("[STATE] " \o p.state \o " -> IMPORT", "IMPORT",
                       "load_image")
          [] p.pc = "load_image" ->
                 LET loaded == load_image(p.image_path)
                 IN  IF loaded.exc # "" THEN Fail(loaded.exc)
                     ELSE [p EXCEPT !.image = loaded.img,
                                    !.pc = "parse_metadata"]
          [] p.pc = "parse_metadata" ->
                 [p EXCEPT !.metadata = parse_metadata(p.image),
                           !.logs = Append(@, "[INFO] loaded"),
                           !.pc = "enter_preprocess"]
          [] p.pc = "enter_preprocess" ->
                 Enter("[STATE] IMPORT -> PREPROCESS", "PREPROCESS", "run_all")
          \* self.preprocessor.run_all(image): the attribute lookup comes
          \* first, and AttributeError is what a missing method gives
          [] p.pc = "run_all" ->
                 IF "run_all" \notin PreprocessorMethods
                 THEN Fail("AttributeError")
                 ELSE [p EXCEPT !.pc = "enter_annotate"]
          [] p.pc = "enter_annotate" ->
                 Enter("[STATE] PREPROCESS -> ANNOTATE", "ANNOTATE",
                       "auto_generate_dummy")
          [] p.pc = "auto_generate_dummy" ->
                 [p EXCEPT !.annotations = auto_generate_dummy,
                           !.logs = Append(@, "[INFO] annotations"),
                           !.pc = "enter_ai_diagnosis"]
          [] p.pc = "enter_ai_diagnosis" ->
                 Enter("[STATE] ANNOTATE -> AI_DIAGNOSIS", "AI_DIAGNOSIS",
                       "predict")
          [] p.pc = "predict" ->
                 [p EXCEPT !.ai_result =
                               predict(p.processed_img, p.metadata,
                                       p.annotations),
                           !.logs = Append(@, "[AI] result"),
                           !.pc = "enter_output"]
          [] p.pc = "enter_output" ->
                 Enter("[STATE] AI_DIAGNOSIS -> OUTPUT", "OUTPUT",
                       "save_processed_image")
          [] p.pc = "save_processed_image" ->
                 IF ~p.save_output THEN [p EXCEPT !.pc = "enter_idle"]
                 ELSE IF io = "raise" THEN Fail("cv2.error")
                 ELSE [p EXCEPT !.save_path =
                                    Some(processed_save_path(p.image_path)),
                                !.logs = Append(@, "[INFO] saved"),
                                !.pc = "enter_idle"]
          [] p.pc = "enter_idle" ->
                 Enter("[STATE] OUTPUT -> IDLE", "IDLE", "return")
          [] p.pc = "return" ->
                 [p EXCEPT !.pc = "done", !.out = "dict"]

\* one statement of the call of run in progress
RunStep ==
    /\ pipeline.pc \notin {"none", "done"}
    /\ \E io \in WriteOutcomes :
           /\ pipeline' = RunStatement(io)
           /\ disk' = IF /\ pipeline.pc = "save_processed_image"
                         /\ pipeline.save_output
                         /\ io = "ok"
                      THEN (processed_save_path(pipeline.image_path)
                                :> Content(pipeline.processed_img)) @@ disk
                      ELSE disk
    /\ ManagerUnchanged

(***************************************************************************)
(* The session: any call with any argument, in any order.                  *)
(***************************************************************************)
Paths == {"raw/scan.png", "raw/bad.png"}

DenoiseMethods == {"median", "mean"}

KSizes == {4}

\* the defaults of apply_denoise: sigmaX, bilateral_d and the two sigmas
DefaultSigmaX == 0

DefaultBilateralD == 5

DefaultSigmaColor == 75

DefaultSigmaSpace == 75

CropXs == {1, 3}

CropYs == {0}

CropWs == {0, 2}

CropHs == {1}

\* the defaults of apply_align
DefaultDx == 5

DefaultDy == 5

ColorModes == {"rgb", "hsv"}

Angles == {90, 45}

FlipModes == {"h", "d"}

StepIndices == {-1, 0, 2}

ApplyOps == {"apply_denoise", "apply_crop", "apply_align",
             "apply_color_convert", "apply_rotate", "apply_flip",
             "apply_hist_equalize"}

\* the identities of the arrays a list holds
Oids(list) == {list[i].oid : i \in DOMAIN list}

\* the history variable: every array that leaves the history is recorded
Discard == dropped' = dropped \cup (Oids(history) \ Oids(history'))

\* budget: the array objects the session may still create are those with
\* an identity below it
NoDriver ==
    [phase |-> "free", n |-> 0, left |-> 0, snap |-> <<>>, budget |-> MaxAlloc]

\* a call of a caller that follows no script
Free == Discard /\ UNCHANGED <<driver, pipeline, gui>>

Init == ManagerInit /\ driver = NoDriver /\ pipeline = PipelineInit /\ gui = GuiInit

AnyLoad == \E path \in Paths : load_original(path)

AnyDenoise ==
    \E method \in DenoiseMethods, ksize \in KSizes, io \in WriteOutcomes :
        apply_denoise(method, ksize, DefaultSigmaX, DefaultBilateralD,
                      DefaultSigmaColor, DefaultSigmaSpace, io)

AnyCrop ==
    \E x \in CropXs, y \in CropYs, w \in CropWs, h \in CropHs,
       io \in WriteOutcomes :
        apply_crop(x, y, w, h, io)

AnyAlign == \E io \in WriteOutcomes : apply_align(DefaultDx, DefaultDy, io)

AnyColorConvert ==
    \E mode \in ColorModes, io \in WriteOutcomes : apply_color_convert(mode, io)

AnyRotate == \E angle \in Angles, io \in WriteOutcomes : apply_rotate(angle, io)

AnyFlip == \E mode \in FlipModes, io \in WriteOutcomes : apply_flip(mode, io)

AnyHistEqualize == \E io \in WriteOutcomes : apply_hist_equalize(io)

LoadOriginal == AnyLoad /\ Free

Undo == undo /\ Free

Redo == redo /\ Free

GetImageAtStep == \E index \in StepIndices : get_image_at_step(index) /\ Free

ApplyDenoise == AnyDenoise /\ Free

ApplyCrop == AnyCrop /\ Free

ApplyAlign == AnyAlign /\ Free

ApplyColorConvert == AnyColorConvert /\ Free

ApplyRotate == AnyRotate /\ Free

ApplyFlip == AnyFlip /\ Free

ApplyHistEqualize == AnyHistEqualize /\ Free

Next ==
    \/ LoadOriginal
    \/ Undo
    \/ Redo
    \/ GetImageAtStep
    \/ ApplyDenoise
    \/ ApplyCrop
    \/ ApplyAlign
    \/ ApplyColorConvert
    \/ ApplyRotate
    \/ ApplyFlip
    \/ ApplyHistEqualize

Spec == Init /\ [][Next]_vars

(***************************************************************************)
(* A scripted caller: load, N commits, N undos, N redos.                   *)
(***************************************************************************)
Snapshot ==
    [history |-> history, tags |-> history_tags, files |-> history_files,
     index |-> current_index, current |-> get_current_img]

InitRoundTrip ==
    /\ ManagerInit
    /\ pipeline = PipelineInit /\ gui = GuiInit
    /\ driver = [phase |-> "load", n |-> 0, left |-> 0, snap |-> <<>>,
                 budget |-> MaxAlloc]

\* the script's load: repeated until a file decodes
RTLoad ==
    /\ driver.phase = "load"
    /\ AnyLoad
    /\ Discard
    /\ driver' = IF ret'.out = "dict"
                 THEN [driver EXCEPT !.phase = "commit"] ELSE driver
    /\ UNCHANGED <<pipeline, gui>>

\* one apply_* call; n counts those that commit
RTApply ==
    /\ driver.phase = "commit"
    /\ \/ AnyDenoise
       \/ AnyCrop
       \/ AnyAlign
       \/ AnyColorConvert
       \/ AnyRotate
       \/ AnyFlip
       \/ AnyHistEqualize
    /\ Discard
    /\ driver' = IF ret'.out = "dict"
                 THEN [driver EXCEPT !.n = driver.n + 1] ELSE driver
    /\ UNCHANGED <<pipeline, gui>>

\* the N-th commit is done: remember the state, undo N times
RTBeginUndo ==
    /\ driver.phase = "commit"
    /\ driver' = [driver EXCEPT !.phase = "undo", !.left = driver.n,
                                !.snap = Snapshot]
    /\ UNCHANGED <<original_path, original_name, history, history_tags,
                   history_files, current_index, disk, next_oid, ret, dropped,
                   pipeline, gui>>

RTUndo ==
    /\ driver.phase = "undo"
    /\ driver.left > 0
    /\ undo
    /\ Discard
    /\ driver' = [driver EXCEPT !.left = driver.left - 1]
    /\ UNCHANGED <<pipeline, gui>>

RTBeginRedo ==
    /\ driver.phase = "undo"
    /\ driver.left = 0
    /\ driver' = [driver EXCEPT !.phase = "redo", !.left = driver.n]
    /\ UNCHANGED <<original_path, original_name, history, history_tags,
                   history_files, current_index, disk, next_oid, ret, dropped,
                   pipeline, gui>>

RTRedo ==
    /\ driver.phase = "redo"
    /\ driver.left > 0
    /\ redo
    /\ Discard
    /\ driver' = [driver EXCEPT !.left = driver.left - 1]
    /\ UNCHANGED <<pipeline, gui>>

RTDone ==
    /\ driver.phase = "redo"
    /\ driver.left = 0
    /\ driver' = [driver EXCEPT !.phase = "done"]
    /\ UNCHANGED <<original_path, original_name, history, history_tags,
                   history_files, current_index, disk, next_oid, ret, dropped,
                   pipeline, gui>>

NextRoundTrip ==
    \/ RTLoad
    \/ RTApply
    \/ RTBeginUndo
    \/ RTUndo
    \/ RTBeginRedo
    \/ RTRedo
    \/ RTDone

SpecRoundTrip == InitRoundTrip /\ [][NextRoundTrip]_vars

(***************************************************************************)
(* A longer session over fewer operations: load, denoise, flip, undo and   *)
(* redo, with one more array object than the general session.              *)
(***************************************************************************)
InitNaming ==
    /\ ManagerInit
    /\ pipeline = PipelineInit /\ gui = GuiInit
    /\ driver = [NoDriver EXCEPT !.budget = MaxNamingAlloc]

NextNaming ==
    \/ LoadOriginal
    \/ Undo
    \/ Redo
    \/ ApplyDenoise
    \/ ApplyFlip

SpecNaming == InitNaming /\ [][NextNaming]_vars

(***************************************************************************)
(* The batch pipeline: one ImageProcessingPipeline object (web/app.py      *)
(* keeps one per process), run called on it again and again.               *)
(***************************************************************************)
PipelinePaths == DOMAIN Files

Run == \E image_path \in PipelinePaths, save_output \in BOOLEAN :
           run(image_path, save_output)

NextPipeline ==
    \/ Run
    \/ RunStep

SpecPipeline == Init /\ [][NextPipeline]_vars

(***************************************************************************)
(* The web front end: web/app.py keeps one pipeline object for the         *)
(* process, and index() calls pipeline.run on it for every upload.  The    *)
(* development server serves each request on a thread of its own, so two   *)
(* calls of run are in progress on the one object, their statements        *)
(* interleaved.  pipeline holds the frame of the request whose thread is   *)
(* running, driver.snap the frame of the other one; self.state belongs to  *)
(* the object and stays in pipeline.state.                                 *)
(***************************************************************************)
WebPaths == {"raw/scan.png", "raw/bad.png"}

\* a frame without the attribute of the object
Suspended(frame) == [frame EXCEPT !.state = ""]

InitWeb ==
    /\ ManagerInit
    /\ pipeline = PipelineInit /\ gui = GuiInit
    /\ driver = [NoDriver EXCEPT !.phase = "web",
                                 !.snap = Suspended(PipelineInit)]

\* index() on a POST: the upload is saved under the raw directory and run is called
\* with its path, save_output left at its default
index_post == \E raw_save_path \in WebPaths : run(raw_save_path, TRUE)

\* the interpreter passes control to the thread of the other request
SwitchThread ==
    /\ pipeline' = [driver.snap EXCEPT !.state = pipeline.state]
    /\ driver' = [driver EXCEPT !.snap = Suspended(pipeline)]
    /\ UNCHANGED <<original_path, original_name, history, history_tags,
                   history_files, current_index, disk, next_oid, ret,
                   dropped, gui>>

NextWeb ==
    \/ index_post
    \/ RunStep
    \/ SwitchThread

SpecWeb == InitWeb /\ [][NextWeb]_vars

(***************************************************************************)
(* gui/qt_app.py: the handlers of MainWindow that call the manager.  Each  *)
(* is the manager call it makes followed by what it does to the two        *)
(* history buttons; gui.handler names the handler that returned last.      *)
(***************************************************************************)
MaxGuiAlloc == 3

\* nothing of the manager is touched, no call is made
NoCall ==
    UNCHANGED <<original_path, original_name, history, history_tags,
                history_files, current_index, disk, next_oid, ret>>

\* the rest of a handler: the buffers the call discarded, and no script
Handler == Discard /\ UNCHANGED <<driver, pipeline>>

\* setEnabled(can_undo()), setEnabled(can_redo()) once the call has returned
\* its entry; a handler that returns early leaves the buttons as they are
RefreshButtons(name) ==
    gui' = [gui EXCEPT !.btn_undo = can_undo', !.btn_redo = can_redo',
                       !.handler = name]

KeepButtons(name) == gui' = [gui EXCEPT !.handler = name]

\* choose_file: "" is the dialog cancelled; neither the failing nor the
\* successful path touches btn_undo or btn_redo
choose_file(path) ==
    /\ IF path = "" THEN NoCall ELSE load_original(path)
    /\ KeepButtons("choose_file")
    /\ Handler

\* the call apply_action makes for the entry chosen in combo_action,
\* params being what self.current_params holds: None, the result of the
\* denoise dialog or that of the crop dialog.  ** of None, or of a dict of
\* the other call's keywords, is a TypeError
apply_action_call(act, params, io) ==
    CASE act = "denoise" ->
             IF params = "denoise"
             THEN apply_denoise("median", 3, DefaultSigmaX, DefaultBilateralD,
                                DefaultSigmaColor, DefaultSigmaSpace, io)
             ELSE Raise("apply_denoise", "TypeError", "bad keywords")
      [] act = "crop" ->
             IF params = "crop" THEN apply_crop(0, 0, 2, 1, io)
             ELSE Raise("apply_crop", "TypeError", "bad keywords")
      [] act = "convert" ->
             apply_color_convert(IF get_current_img.ch # 1 THEN "gray"
                                 ELSE "rgb", io)
      [] act = "align"   -> apply_align(5, 5, io)
      [] act = "rotate"  -> apply_rotate(90, io)
      [] act = "flip"    -> apply_flip("h", io)
      [] act = "hist"    -> apply_hist_equalize(io)

apply_action(act, params, io) ==
    /\ IF ~has_image \/ act = "" THEN NoCall
       ELSE apply_action_call(act, params, io)
    /\ IF has_image /\ act # "" /\ ret'.out = "dict"
       THEN RefreshButtons("apply_action")
       ELSE KeepButtons("apply_action")
    /\ Handler

\* crop_by_roi: roi is viewer_current.get_last_roi(), None or (x, y, w, h)
crop_by_roi(roi, io) ==
    /\ IF roi = None THEN NoCall
       ELSE apply_crop(roi[1], roi[2], roi[3], roi[4], io)
    /\ IF roi # None /\ ret'.out = "dict" THEN RefreshButtons("crop_by_roi")
       ELSE KeepButtons("crop_by_roi")
    /\ Handler

\* do_undo, do_redo: nothing more when the manager returns None
do_undo ==
    /\ undo
    /\ IF ret'.out = "dict" THEN RefreshButtons("do_undo")
       ELSE KeepButtons("do_undo")
    /\ Handler

do_redo ==
    /\ redo
    /\ IF ret'.out = "dict" THEN RefreshButtons("do_redo")
       ELSE KeepButtons("do_redo")
    /\ Handler

GuiPaths == {"", "raw/scan.png", "raw/bad.png"}

GuiActions == {"", "denoise", "crop", "convert", "align", "rotate", "flip",
               "hist"}

GuiParams == {"None", "denoise", "crop"}

GuiRois == {None, <<0, 0, 2, 1>>, <<5, 5, 1, 1>>}

InitGui ==
    /\ ManagerInit
    /\ pipeline = PipelineInit /\ gui = GuiInit
    /\ driver = [NoDriver EXCEPT !.budget = MaxGuiAlloc]

ChooseFile == \E path \in GuiPaths : choose_file(path)

ApplyAction ==
    \E act \in GuiActions, params \in GuiParams, io \in WriteOutcomes :
        apply_action(act, params, io)

CropByRoi == \E roi \in GuiRois, io \in WriteOutcomes : crop_by_roi(roi, io)

NextGui ==
    \/ ChooseFile
    \/ ApplyAction
    \/ CropByRoi
    \/ do_undo
    \/ do_redo

SpecGui == InitGui /\ [][NextGui]_vars

(***************************************************************************)
(* gui/text_analysis_widget.py: the widget in the right panel and its      *)
(* worker threads.  A text is its sequence of characters.  A worker is     *)
(* [mode, text, pc, emitted]: pc is "running" from start() until run has   *)
(* emitted its signal, "emitted" until run returns, "finished" once the    *)
(* thread has ended; emitted lists the signals it has emitted.  A signal   *)
(* emitted by the worker thread is queued for the main thread, which       *)
(* calls the slot later.                                                   *)
(***************************************************************************)
MaxWorkers == 2

MaxTextAlloc == 2

Whitespace == {" "}

\* str.strip(): the whitespace of both ends removed
RECURSIVE LStrip(_)
LStrip(text) ==
    IF text # <<>> /\ Head(text) \in Whitespace THEN LStrip(Tail(text))
    ELSE text

RECURSIVE RStrip(_)
RStrip(text) ==
    IF text # <<>> /\ text[Len(text)] \in Whitespace
    THEN RStrip(SubSeq(text, 1, Len(text) - 1))
    ELSE text

Strip(text) == RStrip(LStrip(text))

\* QThread.isRunning()
isRunning(worker) == worker.pc \in {"running", "emitted"}

\* the text the engine returns for a mode: its prompt answered
EngineResult(mode, text) == <<mode>> \o text

CallingMsg == <<"calling">>

\* what the widget did with the last click
NoClick == ""

\* mutant: _run starts a worker whether or not one is running
_run_unguarded(mode) ==
    LET text == Strip(gui.text_input)
    IN  /\ IF text = <<>>
           THEN gui' = [gui EXCEPT !.handler = "warning"]
           ELSE /\ Len(gui.workers) < MaxWorkers
                /\ gui' = [gui EXCEPT
                              !.text_output = CallingMsg,
                              !.workers = Append(@, [mode |-> mode,
                                                     text |-> text,
                                                     pc |-> "running",
                                                     emitted |-> <<>>]),
                              !._worker = Len(gui.workers) + 1,
                              !.handler = "started"]
        /\ NoCall
        /\ UNCHANGED <<dropped, driver, pipeline>>

\* TextAnalysisWidget._run: the click of one of the three buttons
_run(mode) ==
    LET text == Strip(gui.text_input)
    IN  /\ IF text = <<>>
           THEN gui' = [gui EXCEPT !.handler = "warning"]
           ELSE IF gui._worker # 0 /\ isRunning(gui.workers[gui._worker])
           THEN gui' = [gui EXCEPT !.handler = "information"]
           ELSE /\ Len(gui.workers) < MaxWorkers
                /\ gui' = [gui EXCEPT
                              !.text_output = CallingMsg,
                              !.workers = Append(@, [mode |-> mode,
                                                     text |-> text,
                                                     pc |-> "running",
                                                     emitted |-> <<>>]),
                              !._worker = Len(gui.workers) + 1,
                              !.handler = "started"]
        /\ NoCall
        /\ UNCHANGED <<dropped, driver, pipeline>>

\* mutant: run without its except clause, emitting nothing when the
\* engine raises
_NLPWorker_run_no_except(i, engine) ==
    LET worker == gui.workers[i]
        known  == worker.mode \in {"summary", "analyze", "diagnose"}
        signal == IF known /\ engine = "ok"
                  THEN <<[worker |-> i, name |-> "finished",
                          arg |-> EngineResult(worker.mode, worker.text)]>>
                  ELSE <<>>
    IN  /\ worker.pc = "running"
        /\ gui' = [gui EXCEPT
                      !.workers[i].pc = "emitted",
                      !.workers[i].emitted =
                          @ \o [k \in DOMAIN signal |-> signal[k].name],
                      !.queue = @ \o signal]
        /\ NoCall
        /\ UNCHANGED <<dropped, driver, pipeline>>

\* _NLPWorker.run on the worker thread: the engine method of the mode
\* returns its text or raises (the request to the model server failing);
\* an unknown mode raises ValueError; the one except clause emits error
_NLPWorker_run(i, engine) ==
    LET worker == gui.workers[i]
        known  == worker.mode \in {"summary", "analyze", "diagnose"}
        signal == IF known /\ engine = "ok"
                  THEN [worker |-> i, name |-> "finished",
                        arg |-> EngineResult(worker.mode, worker.text)]
                  ELSE [worker |-> i, name |-> "error",
                        arg |-> IF known THEN <<"request failed">>
                                ELSE <<"unknown mode">>]
    IN  /\ worker.pc = "running"
        /\ gui' = [gui EXCEPT !.workers[i].pc = "emitted",
                              !.workers[i].emitted = Append(@, signal.name),
                              !.queue = Append(@, signal)]
        /\ NoCall
        /\ UNCHANGED <<dropped, driver, pipeline>>

\* run has returned: the thread ends
WorkerExit(i) ==
    /\ gui.workers[i].pc = "emitted"
    /\ gui' = [gui EXCEPT !.workers[i].pc = "finished"]
    /\ NoCall
    /\ UNCHANGED <<dropped, driver, pipeline>>

\* the main thread takes the next queued signal: _on_finished, _on_error
DeliverSignal ==
    /\ gui.queue # <<>>
    /\ LET signal == Head(gui.queue)
       IN  gui' = [gui EXCEPT
                      !.queue = Tail(@),
                      !.text_output = IF signal.name = "finished"
                                      THEN signal.arg
                                      ELSE <<"error">> \o signal.arg]
    /\ NoCall
    /\ UNCHANGED <<dropped, driver, pipeline>>

TextInputs == {<<>>, <<" ">>, <<" ", "f">>}

TextModes == {"summary", "analyze", "diagnose"}

EngineOutcomes == {"ok", "raise"}

\* the user edits the input field
EditText ==
    /\ \E text \in TextInputs :
           /\ text # gui.text_input
           /\ gui' = [gui EXCEPT !.text_input = text, !.handler = NoClick]
    /\ NoCall
    /\ UNCHANGED <<dropped, driver, pipeline>>

Click == \E mode \in TextModes : _run(mode)

WorkerRun ==
    \E i \in DOMAIN gui.workers, engine \in EngineOutcomes :
        _NLPWorker_run(i, engine)

WorkerEnd == \E i \in DOMAIN gui.workers : WorkerExit(i)

\* the image side of the window, used while the workers run
TextChooseFile == choose_file("raw/scan.png")

TextApplyAction == apply_action("flip", "None", "ok")

InitText ==
    /\ ManagerInit
    /\ pipeline = PipelineInit
    /\ gui = GuiInit
    /\ driver = [NoDriver EXCEPT !.budget = MaxTextAlloc]

NextText ==
    \/ EditText
    \/ Click
    \/ WorkerRun
    \/ WorkerEnd
    \/ DeliverSignal
    \/ TextChooseFile
    \/ TextApplyAction
    \/ do_undo

SpecText == InitText /\ [][NextText]_vars

(***************************************************************************)
(* A cropping session: load, apply_crop with origins on both sides of the  *)
(* image and sizes within and beyond it, undo.  The caller keeps the       *)
(* crop request it has just made and the image it made it on.              *)
(***************************************************************************)
CropGeomXs == {-1, 1, 3}

CropGeomYs == {-1, 0, 2}

CropGeomWs == {0, 1, 3}

CropGeomHs == {1, 2}

InitCrop ==
    /\ ManagerInit
    /\ pipeline = PipelineInit /\ gui = GuiInit
    /\ driver = [NoDriver EXCEPT !.phase = "crop", !.budget = MaxCropAlloc]

\* the files of this session are all written
CropCall ==
    \E x \in CropGeomXs, y \in CropGeomYs, w \in CropGeomWs, h \in CropGeomHs :
        /\ apply_crop(x, y, w, h, "ok")
        /\ Discard
        /\ driver' = [driver EXCEPT
                          !.snap = [x |-> x, y |-> y, w |-> w, h |-> h,
                                    src |-> get_current_img]]
        /\ UNCHANGED <<pipeline, gui>>

CropLoad ==
    /\ AnyLoad
    /\ Discard
    /\ driver' = [driver EXCEPT !.snap = <<>>]
    /\ UNCHANGED <<pipeline, gui>>

CropUndo ==
    /\ undo
    /\ Discard
    /\ driver' = [driver EXCEPT !.snap = <<>>]
    /\ UNCHANGED <<pipeline, gui>>

NextCrop ==
    \/ CropLoad
    \/ CropCall
    \/ CropUndo

SpecCrop == InitCrop /\ [][NextCrop]_vars

(***************************************************************************)
(* A cropping session at the edges: two files of different sizes, origins  *)
(* at 0, on and beyond the far edge, sizes that are not positive, that     *)
(* fit and that exceed the image.  The caller keeps its request, the       *)
(* image it made it on and the history as it was before the call.          *)
(***************************************************************************)
EdgePaths == {"raw/scan.png", "in/photo.jpg"}

EdgeXs == {0, 3}

EdgeYs == {0, 2}

EdgeWs == {0, 2, 3}

EdgeHs == {-1, 1, 2}

InitEdge ==
    /\ ManagerInit
    /\ pipeline = PipelineInit /\ gui = GuiInit
    /\ driver = [NoDriver EXCEPT !.phase = "edge", !.budget = MaxEdgeAlloc]

\* the files of this session are all written
EdgeCall ==
    \E x \in EdgeXs, y \in EdgeYs, w \in EdgeWs, h \in EdgeHs :
        /\ apply_crop(x, y, w, h, "ok")
        /\ Discard
        /\ driver' = [driver EXCEPT
                          !.snap = [x |-> x, y |-> y, w |-> w, h |-> h,
                                    src |-> get_current_img,
                                    before |-> Snapshot]]
        /\ UNCHANGED <<pipeline, gui>>

EdgeLoad ==
    /\ \E path \in EdgePaths : load_original(path)
    /\ Discard
    /\ driver' = [driver EXCEPT !.snap = <<>>]
    /\ UNCHANGED <<pipeline, gui>>

EdgeUndo ==
    /\ undo
    /\ Discard
    /\ driver' = [driver EXCEPT !.snap = <<>>]
    /\ UNCHANGED <<pipeline, gui>>

NextEdge ==
    \/ EdgeLoad
    \/ EdgeCall
    \/ EdgeUndo

SpecEdge == InitEdge /\ [][NextEdge]_vars

(***************************************************************************)
(* A rotating session: load one of two files that are not square, rotate   *)
(* by angles inside and outside 0..359, supported or not, undo.  The       *)
(* caller keeps the angle it asked for and the history as it was before    *)
(* the call.                                                               *)
(***************************************************************************)
RotatePaths == {"raw/scan.png", "in/photo.jpg"}

RotateAngles == {-90, 0, 45, 90, 180, 270, 360, 450}

InitRotate ==
    /\ ManagerInit
    /\ pipeline = PipelineInit /\ gui = GuiInit
    /\ driver = [NoDriver EXCEPT !.phase = "rotate", !.budget = MaxRotateAlloc]

\* the files of this session are all written
RotateCall ==
    \E angle \in RotateAngles :
        /\ apply_rotate(angle, "ok")
        /\ Discard
        /\ driver' = [driver EXCEPT
                          !.snap = [angle |-> angle, src |-> get_current_img,
                                    before |-> Snapshot]]
        /\ UNCHANGED <<pipeline, gui>>

RotateLoad ==
    /\ \E path \in RotatePaths : load_original(path)
    /\ Discard
    /\ driver' = [driver EXCEPT !.snap = <<>>]
    /\ UNCHANGED <<pipeline, gui>>

RotateUndo ==
    /\ undo
    /\ Discard
    /\ driver' = [driver EXCEPT !.snap = <<>>]
    /\ UNCHANGED <<pipeline, gui>>

NextRotate ==
    \/ RotateLoad
    \/ RotateCall
    \/ RotateUndo

SpecRotate == InitRotate /\ [][NextRotate]_vars

(***************************************************************************)
(* A denoising session: load, median and Gaussian denoising with even and  *)
(* odd kernel sizes, undo.  The caller keeps the method and the kernel     *)
(* size it asked for.                                                      *)
(***************************************************************************)
KernelPaths == {"raw/scan.png", "in/photo.jpg"}

KernelMethods == {"median", "gaussian"}

KernelSizes == {2, 3, 4, 5}

InitDenoise ==
    /\ ManagerInit
    /\ pipeline = PipelineInit /\ gui = GuiInit
    /\ driver = [NoDriver EXCEPT !.phase = "denoise",
                                 !.budget = MaxDenoiseAlloc]

\* apply_denoise(method, ksize), the other arguments at their defaults and
\* the file written
denoise_with(method, ksize) ==
    apply_denoise(method, ksize, DefaultSigmaX, DefaultBilateralD,
                  DefaultSigmaColor, DefaultSigmaSpace, "ok")

DenoiseCall ==
    \E method \in KernelMethods, ksize \in KernelSizes :
        /\ denoise_with(method, ksize)
        /\ Discard
        /\ driver' = [driver EXCEPT
                          !.snap = [method |-> method, ksize |-> ksize,
                                    src |-> get_current_img]]
        /\ UNCHANGED <<pipeline, gui>>

DenoiseLoad ==
    /\ \E path \in KernelPaths : load_original(path)
    /\ Discard
    /\ driver' = [driver EXCEPT !.snap = <<>>]
    /\ UNCHANGED <<pipeline, gui>>

DenoiseUndo ==
    /\ undo
    /\ Discard
    /\ driver' = [driver EXCEPT !.snap = <<>>]
    /\ UNCHANGED <<pipeline, gui>>

NextDenoise ==
    \/ DenoiseLoad
    \/ DenoiseCall
    \/ DenoiseUndo

SpecDenoise == InitDenoise /\ [][NextDenoise]_vars

(***************************************************************************)
(* A denoising session with kernel sizes of 0 and less, and the bilateral  *)
(* filter with two diameters.                                              *)
(***************************************************************************)
MaxKernelAlloc == 3

DefaultedPath == "raw/scan.png"

DefaultedMethods == {"median", "gaussian", "bilateral"}

DefaultedSizes == {-1, 0, 3, 5}

BilateralDs == {5, 9}

InitDefaulted ==
    /\ ManagerInit
    /\ pipeline = PipelineInit /\ gui = GuiInit
    /\ driver = [NoDriver EXCEPT !.phase = "defaulted",
                                 !.budget = MaxKernelAlloc]

\* apply_denoise(method, ksize, bilateral_d = d), the sigmas at their
\* defaults and the file written
denoise_of(method, ksize, d) ==
    apply_denoise(method, ksize, DefaultSigmaX, d, DefaultSigmaColor,
                  DefaultSigmaSpace, "ok")

DefaultedCall ==
    \E method \in DefaultedMethods, ksize \in DefaultedSizes,
       d \in BilateralDs :
        /\ denoise_of(method, ksize, d)
        /\ Discard
        /\ driver' = [driver EXCEPT
                          !.snap = [method |-> method, ksize |-> ksize,
                                    d |-> d]]
        /\ UNCHANGED <<pipeline, gui>>

DefaultedLoad ==
    /\ load_original(DefaultedPath)
    /\ Discard
    /\ driver' = [driver EXCEPT !.snap = <<>>]
    /\ UNCHANGED <<pipeline, gui>>

DefaultedUndo ==
    /\ undo
    /\ Discard
    /\ driver' = [driver EXCEPT !.snap = <<>>]
    /\ UNCHANGED <<pipeline, gui>>

NextDefaulted ==
    \/ DefaultedLoad
    \/ DefaultedCall
    \/ DefaultedUndo

SpecDefaulted == InitDefaulted /\ [][NextDefaulted]_vars

(***************************************************************************)
(* A scripted scenario: after a session of any kind (loads, flips, undos), *)
(* the caller loads a 100 x 100 grayscale file, rotates by 90, flips       *)
(* horizontally, undoes and crops (0, 0, 50, 50).  A step that raises      *)
(* (the file of the step cannot be written) is made again.  driver.n is    *)
(* the number of steps done, driver.snap.lens the length of the history    *)
(* after each of them, driver.snap.rotated the result of the rotation.     *)
(***************************************************************************)
ScenarioPath == "raw/slice.png"

ScenarioCrop == [x |-> 0, y |-> 0, w |-> 50, h |-> 50]

InitScenario ==
    /\ ManagerInit
    /\ pipeline = PipelineInit /\ gui = GuiInit
    /\ driver = [NoDriver EXCEPT !.phase = "prior", !.budget = MaxPriorAlloc]

\* a call of the session before the scenario
ScPrior ==
    /\ driver.phase = "prior"
    /\ \/ AnyLoad
       \/ AnyFlip
       \/ undo
    /\ Free

\* the scenario starts here, whatever the session has left
ScBegin ==
    /\ driver.phase = "prior"
    /\ driver' = [driver EXCEPT
                      !.phase = "scenario",
                      !.budget = next_oid + ScenarioAllocs,
                      !.snap = [lens |-> <<>>, rotated |-> NoImg]]
    /\ UNCHANGED <<original_path, original_name, history, history_tags,
                   history_files, current_index, disk, next_oid, ret, dropped,
                   pipeline, gui>>

\* the caller after a step of the scenario: it counts the step if the call
\* did not raise
ScStepped ==
    /\ Discard
    /\ driver' =
           IF ret'.out = "raise" THEN driver
           ELSE [driver EXCEPT
                     !.n = driver.n + 1,
                     !.snap = [lens    |-> Append(driver.snap.lens,
                                                  Len(history')),
                               rotated |-> IF ret'.op = "apply_rotate"
                                           THEN ret'.img
                                           ELSE driver.snap.rotated]]
    /\ UNCHANGED <<pipeline, gui>>

ScLoad ==
    /\ driver.phase = "scenario"
    /\ driver.n = 0
    /\ load_original(ScenarioPath)
    /\ ScStepped

ScRotate ==
    /\ driver.phase = "scenario"
    /\ driver.n = 1
    /\ \E io \in WriteOutcomes : apply_rotate(90, io)
    /\ ScStepped

ScFlip ==
    /\ driver.phase = "scenario"
    /\ driver.n = 2
    /\ \E io \in WriteOutcomes : apply_flip("h", io)
    /\ ScStepped

ScUndo ==
    /\ driver.phase = "scenario"
    /\ driver.n = 3
    /\ undo
    /\ ScStepped

ScCrop ==
    /\ driver.phase = "scenario"
    /\ driver.n = 4
    /\ \E io \in WriteOutcomes :
           apply_crop(ScenarioCrop.x, ScenarioCrop.y, ScenarioCrop.w,
                      ScenarioCrop.h, io)
    /\ ScStepped

NextScenario ==
    \/ ScPrior
    \/ ScBegin
    \/ ScLoad
    \/ ScRotate
    \/ ScFlip
    \/ ScUndo
    \/ ScCrop

SpecScenario == InitScenario /\ [][NextScenario]_vars

(***************************************************************************)
(* What a call may change of the manager and of the directory it writes    *)
(* to, as a caller can record it before the call.                          *)
(***************************************************************************)
SessionState ==
    [history |-> history, tags |-> history_tags, files |-> history_files,
     index |-> current_index, path |-> original_path,
     name |-> original_name, disk |-> disk]

(***************************************************************************)
(* A lookup session: load, flip, undo, redo and get_image_at_step with     *)
(* indices before, inside and past the list.  The caller keeps the index   *)
(* it asked for and the session as it was before the call.                 *)
(***************************************************************************)
LookupIndices == {-2, -1, 0, 1, 2, 3}

InitLookup ==
    /\ ManagerInit
    /\ pipeline = PipelineInit /\ gui = GuiInit
    /\ driver = [NoDriver EXCEPT !.phase = "lookup", !.budget = MaxLookupAlloc]

LookupCall ==
    \E index \in LookupIndices :
        /\ get_image_at_step(index)
        /\ Discard
        /\ driver' = [driver EXCEPT
                          !.snap = [index |-> index, before |-> SessionState]]
        /\ UNCHANGED <<pipeline, gui>>

\* the other calls of the session: the caller forgets its last lookup
LookupOther ==
    /\ Discard
    /\ driver' = [driver EXCEPT !.snap = <<>>]
    /\ UNCHANGED <<pipeline, gui>>

LookupLoad == AnyLoad /\ LookupOther

LookupFlip == AnyFlip /\ LookupOther

LookupUndo == undo /\ LookupOther

LookupRedo == redo /\ LookupOther

NextLookup ==
    \/ LookupLoad
    \/ LookupFlip
    \/ LookupUndo
    \/ LookupRedo
    \/ LookupCall

SpecLookup == InitLookup /\ [][NextLookup]_vars

(***************************************************************************)
(* A decoding session: files of every kind are loaded (grayscale, colour,  *)
(* with an alpha channel, DICOM, undecodable, without samples), colours    *)
(* are converted, steps are undone.  The caller keeps the path it asked    *)
(* to load and the session as it was before the call.                      *)
(***************************************************************************)
DecodePaths == {"raw/scan.png", "in/photo.jpg", "in/logo.png", "in/ct.dcm",
                "raw/bad.png", "raw/empty.png"}

ConvertModes == {"gray", "rgb"}

InitDecode ==
    /\ ManagerInit
    /\ pipeline = PipelineInit /\ gui = GuiInit
    /\ driver = [NoDriver EXCEPT !.phase = "decode", !.budget = MaxDecodeAlloc]

DecodeLoad ==
    \E path \in DecodePaths :
        /\ load_original(path)
        /\ Discard
        /\ driver' = [driver EXCEPT
                          !.snap = [path |-> path, before |-> SessionState]]
        /\ UNCHANGED <<pipeline, gui>>

\* the files of this session are all written
DecodeConvert ==
    /\ \E mode \in ConvertModes : apply_color_convert(mode, "ok")
    /\ Discard
    /\ driver' = [driver EXCEPT !.snap = <<>>]
    /\ UNCHANGED <<pipeline, gui>>

DecodeUndo ==
    /\ undo
    /\ Discard
    /\ driver' = [driver EXCEPT !.snap = <<>>]
    /\ UNCHANGED <<pipeline, gui>>

NextDecode ==
    \/ DecodeLoad
    \/ DecodeConvert
    \/ DecodeUndo

SpecDecode == InitDecode /\ [][NextDecode]_vars

(***************************************************************************)
(* A session whose files are all written: load, flips, undo and redo, with *)
(* as many array objects as the naming session.                            *)
(***************************************************************************)
PersistModes == {"h", "v"}

InitPersist ==
    /\ ManagerInit
    /\ pipeline = PipelineInit /\ gui = GuiInit
    /\ driver = [NoDriver EXCEPT !.budget = MaxNamingAlloc]

PersistFlip == (\E mode \in PersistModes : apply_flip(mode, "ok")) /\ Free

NextPersist ==
    \/ LoadOriginal
    \/ Undo
    \/ Redo
    \/ PersistFlip

SpecPersist == InitPersist /\ [][NextPersist]_vars

(***************************************************************************)
(* Properties.  A step is recognised by the outcome it leaves in ret:      *)
(* every call overwrites ret with its own name and result.                 *)
(***************************************************************************)
\* the step is a successful apply_* call
Committed == ret'.op \in ApplyOps /\ ret'.out = "dict"

\* the last call was a successful apply_*
JustCommitted == ret.op \in ApplyOps /\ ret.out = "dict"

\* C1: a commit at pointer i in a history of length L drops every entry at
\* positions > i, appends the new entry and makes it current: afterwards
\* length = i + 2, current_index = i + 1, and entry i + 1 is the new buffer
\* with the new tag.
C1_CommitTruncatesAndAppends ==
    [][Committed =>
          /\ Len(history') = current_index + 2
          /\ Len(history_tags') = current_index + 2
          /\ Len(history_files') = current_index + 2
          /\ current_index' = current_index + 1
          /\ Oids(history') \ {ret'.img.oid} =
                 Oids(Prefix(history, current_index + 1))
          /\ At(history', current_index + 1) = ret'.img
          /\ ret'.img.oid \notin Oids(history)
          /\ At(history_tags', current_index + 1) = ret'.tag
      ]_vars

\* C1 happens: a commit made after an undo, in the session of the first load
C1_Witness ==
    /\ JustCommitted
    /\ Len(history) = 2
    /\ current_index = 1
    /\ history[1].oid = 0
    /\ history[2].oid = 2

\* C2: in every reachable state, whatever calls succeeded or failed, a
\* non-empty history has 0 <= current_index < len(history).
C2_IndexInRange ==
    Len(history) > 0 => 0 <= current_index /\ current_index < Len(history)

\* C2 happens: a failed call on a history with a redoable tail
C2_Witness ==
    /\ ret.out = "raise"
    /\ Len(history) = 3
    /\ current_index = 0

C4_RoundTrip ==
    /\ (driver.phase = "redo" /\ driver.left = driver.n) => current_index = 0
    /\ driver.phase = "done" => Snapshot = driver.snap

\* C4 happens: the script ran to its end with N = 2
C4_Witness == driver.phase = "done" /\ driver.n = 2

\* the messages of the parameter and geometry errors of apply_*
ParamErrors == {"unsupported denoise method",
                "crop width/height must be positive",
                "crop origin outside the image",
                "crop region invalid",
                "unsupported colour mode",
                "only 90/180/270 supported",
                "flip mode must be h or v"}

\* C5: an apply_* call that fails with a parameter or geometry error leaves
\* the history, the tags, the file names and current_index as they were,
\* redoable tail included, and writes no file.
C5_ParamErrorChangesNothing ==
    [][(ret'.op \in ApplyOps /\ ret'.out = "raise" /\ ret'.msg \in ParamErrors)
          => UNCHANGED <<history, history_tags, history_files,
                         current_index, disk>>
      ]_vars

\* C5 happens: a geometry error raised while a redoable tail exists
C5_Witness ==
    /\ ret.op = "apply_crop"
    /\ ret.msg = "crop origin outside the image"
    /\ can_redo
    /\ DOMAIN disk # {}

\* C6: undo decrements current_index by one and returns the entry now
\* current when current_index > 0; otherwise it returns None and changes
\* nothing.
C6_Undo ==
    [][ret'.op = "undo" =>
          IF current_index > 0
          THEN /\ current_index' = current_index - 1
               /\ ret'.out = "dict"
               /\ ret'.img = At(history', current_index')
          ELSE /\ ret'.out = "None"
               /\ UNCHANGED <<original_path, original_name, history,
                              history_tags, history_files, current_index,
                              disk>>
      ]_vars

\* C6 happens: undo has walked back to the original
C6_Witness ==
    /\ ret.op = "undo"
    /\ ret.out = "dict"
    /\ Len(history) = 3
    /\ current_index = 0

\* C7: redo increments current_index by one and returns the entry now
\* current when current_index < len(history) - 1; otherwise it returns None
\* and changes nothing.
C7_Redo ==
    [][ret'.op = "redo" =>
          IF current_index < Len(history) - 1
          THEN /\ current_index' = current_index + 1
               /\ ret'.out = "dict"
               /\ ret'.img = At(history', current_index')
          ELSE /\ ret'.out = "None"
               /\ UNCHANGED <<original_path, original_name, history,
                              history_tags, history_files, current_index,
                              disk>>
      ]_vars

\* C7 happens: one redo with two entries ahead
C7_Witness ==
    /\ ret.op = "redo"
    /\ ret.out = "dict"
    /\ Len(history) = 3
    /\ current_index = 1

\* C8: undo and redo change nothing but current_index: buffers, tags, file
\* names, original_name / original_path and the files on disk stay.
C8_UndoRedoFrame ==
    [][ret'.op \in {"undo", "redo"} =>
          UNCHANGED <<history, history_tags, history_files, original_name,
                      original_path, disk>>
      ]_vars

\* C8 happens: a redo that moved the pointer while files are on disk
C8_Witness ==
    /\ ret.op = "redo"
    /\ ret.out = "dict"
    /\ current_index = Len(history) - 1
    /\ DOMAIN disk # {}

\* C9: a successful load_original from any state leaves exactly one entry,
\* tagged as the original, with current_index = 0; every earlier entry is
\* discarded, and neither undo nor redo is possible.
C9_LoadResets ==
    [][(ret'.op = "load_original" /\ ret'.out = "dict") =>
          /\ history' = <<ret'.img>>
          /\ history_tags' = <<OriginalTag>>
          /\ history_files' = <<"">>
          /\ current_index' = 0
          /\ ~can_undo'
          /\ ~can_redo'
          /\ Oids(history) \subseteq dropped'
      ]_vars

\* C9 happens: a load over a history that had a committed, written entry
C9_Witness ==
    /\ ret.op = "load_original"
    /\ ret.out = "dict"
    /\ dropped = {0, 1}
    /\ DOMAIN disk # {}

\* C10: the step number in the name of the file written for a commit is the
\* index the new entry occupies after the commit.
C10_StepNumberIsIndex ==
    JustCommitted =>
        ret.saved_path =
            SavedPath(StepFileName(base_name, current_index, ret.tag))

\* C11: in every reachable state no two entries present in the history
\* carry the same persisted file name (one distinct file per committed
\* entry).
C11_NamesCollisionFree ==
    \A i, j \in DOMAIN history_files :
        i # j => history_files[i] # history_files[j]

\* an apply_* call, with any of the session's arguments, whose cv2.imwrite
\* (if the call gets that far) has the outcome io
ApplyWith(io) ==
    \/ \E method \in DenoiseMethods, ksize \in KSizes :
           apply_denoise(method, ksize, DefaultSigmaX, DefaultBilateralD,
                         DefaultSigmaColor, DefaultSigmaSpace, io)
    \/ \E x \in CropXs, y \in CropYs, w \in CropWs, h \in CropHs :
           apply_crop(x, y, w, h, io)
    \/ apply_align(DefaultDx, DefaultDy, io)
    \/ \E mode \in ColorModes : apply_color_convert(mode, io)
    \/ \E angle \in Angles : apply_rotate(angle, io)
    \/ \E mode \in FlipModes : apply_flip(mode, io)
    \/ apply_hist_equalize(io)

\* the step got as far as _save_step_image: it did not end in the no-image
\* error or in a parameter / geometry error
WriteAttempted ==
    ~(ret'.out = "raise" /\ ret'.msg \in ParamErrors \cup {NoImageMsg})

\* the outcomes of cv2.imwrite that leave no file
FailedWrites == {"false", "raise"}

\* C12: when the write of a transform result fails, by reporting failure
\* or by raising, the commit still takes place in memory: the new entry is
\* appended and current_index advances as for a successful write.
C12_FailedWriteStillCommits ==
    [][\A io \in FailedWrites :
          (ApplyWith(io) /\ WriteAttempted) =>
              /\ Len(history') = current_index + 2
              /\ current_index' = current_index + 1
              /\ Prefix(history', current_index + 1) =
                     Prefix(history, current_index + 1)
              /\ At(history', current_index') .oid = next_oid
      ]_vars

\* C13: a failed write is never silent: the caller of the apply_* call
\* gets an error signal, which a commit whose file was written never gives.
C13_FailedWriteNotSilent ==
    [][\A io \in FailedWrites :
          (ApplyWith(io) /\ WriteAttempted) =>
              /\ ret'.out = "raise"
              /\ ret'.exc # ""
      ]_vars

\* the transitions of the chain
StateChain ==
    {<<"IDLE", "IMPORT">>, <<"IMPORT", "PREPROCESS">>,
     <<"PREPROCESS", "ANNOTATE">>, <<"ANNOTATE", "AI_DIAGNOSIS">>,
     <<"AI_DIAGNOSIS", "OUTPUT">>, <<"OUTPUT", "IDLE">>}

\* C14: during run, self.state only ever changes along the chain IDLE ->
\* IMPORT -> PREPROCESS -> ANNOTATE -> AI_DIAGNOSIS -> OUTPUT -> IDLE: no
\* state is skipped or visited out of order.
C14_StateFollowsChain ==
    [][pipeline'.state # pipeline.state =>
          <<pipeline.state, pipeline'.state>> \in StateChain
      ]_vars

\* C15: a call of run that started in state IDLE on a decodable image
\* ends with the whole chain done: it returns its result in state IDLE,
\* the processed image being the Preprocessor's default run on the
\* imported image.
C15_RunCompletes ==
    (/\ pipeline.pc = "done"
     /\ pipeline.started_in = "IDLE"
     /\ load_image(pipeline.image_path).exc = "")
        => /\ pipeline.out = "dict"
           /\ pipeline.state = "IDLE"
           /\ pipeline.processed_img =
                  Preprocessor_run(pipeline.image, FALSE, FALSE, FALSE,
                                   FALSE).img

\* C16: the no-image check comes before every operation-specific check: an
\* apply_* call made while no image is loaded fails with the no-image
\* error whatever its arguments, valid or not, never with a parameter or
\* geometry error, and changes nothing.
C16_NoImageCheckFirst ==
    [][(ret'.op \in ApplyOps /\ ~has_image) =>
          /\ ret' = Raised(ret'.op, "ValueError", NoImageMsg)
          /\ UNCHANGED <<original_path, original_name, history, history_tags,
                         history_files, current_index, disk, next_oid>>
      ]_vars

\* C16 happens: apply_crop called on a manager that never loaded an image
C16_Witness ==
    /\ ret.op = "apply_crop"
    /\ ret.out = "raise"
    /\ history = <<>>
    /\ current_index = -1

\* C17: the history is empty only before the first successful load.  A
\* state with an empty history is the no-image state of a manager that has
\* loaded nothing (current_index = -1, has_image false, get_current_img
\* None), where undo and redo are no-ops; and once the history is
\* non-empty no call, failed loads and failed transforms included, makes
\* it empty again.
C17_EmptyOnlyBeforeFirstLoad ==
    /\ [](Len(history) = 0 =>
              /\ current_index = -1
              /\ ~has_image
              /\ get_current_img = NoImg
              /\ ~can_undo
              /\ ~can_redo
              /\ original_path = None
              /\ next_oid = 0)
    /\ [][(Len(history) = 0 /\ ret'.op \in {"undo", "redo"}) =>
              /\ ret'.out = "None"
              /\ UNCHANGED <<original_path, original_name, history,
                             history_tags, history_files, current_index,
                             disk, next_oid>>
       ]_vars
    /\ [][Len(history) > 0 => Len(history') > 0]_vars

\* C17 happens: a load that failed after an earlier load and a commit
C17_Witness ==
    /\ ret.op = "load_original"
    /\ ret.out = "raise"
    /\ Len(history) = 2
    /\ original_path # None

\* C18: in every non-empty history entry 0 is tagged as the original and
\* has no persisted file name (the empty string), and every entry at an
\* index >= 1 has a non-empty persisted file name and a tag other than the
\* original's.
C18_OriginalFirst ==
    Len(history) > 0 =>
        /\ At(history_tags, 0) = OriginalTag
        /\ At(history_files, 0) = ""
        /\ \A i \in 1 .. Len(history) - 1 :
               /\ At(history_files, i) # ""
               /\ At(history_tags, i) # OriginalTag

\* C18 happens: two committed entries, neither of whose files was written
C18_Witness ==
    /\ Len(history) = 3
    /\ Len(history_tags) = 3
    /\ Len(history_files) = 3
    /\ DOMAIN disk = {}

\* the last call was apply_crop(x, y, w, h), made on an image
CropCalled ==
    /\ ret.op = "apply_crop"
    /\ driver.phase = "crop"
    /\ driver.snap # <<>>
    /\ driver.snap.src # NoImg

\* the array cut out of src at column x0 and row y0, out_w wide, out_h high
Region(src, x0, y0, out_w, out_h) ==
    Content(Slice(src, y0, y0 + out_h, x0, x0 + out_w))

\* the extent left of a length requested from an origin clamped to >= 0,
\* once clipped to a side of length n
ClippedExtent(origin, length, n) ==
    Min({n, Max({0, origin}) + length}) - Max({0, origin})

\* C19: a successful apply_crop(x, y, w, h) on an image W x H yields a
\* region inside the source, 0 <= x0 < x0 + out_w <= W and 0 <= y0 <
\* y0 + out_h <= H (so at least 1 x 1 and never padded); a request whose
\* rectangle, clipped to the image, has no area fails and commits nothing.
C19_CropInsideSource ==
    CropCalled =>
        LET rq  == driver.snap
            src == rq.src
        IN  /\ ret.out = "dict" =>
                   /\ ret.img = get_current_img
                   /\ \E x0 \in 0 .. src.w - 1, y0 \in 0 .. src.h - 1 :
                          /\ x0 < x0 + ret.img.w
                          /\ x0 + ret.img.w <= src.w
                          /\ y0 < y0 + ret.img.h
                          /\ y0 + ret.img.h <= src.h
                          /\ Content(ret.img) =
                                 Region(src, x0, y0, ret.img.w, ret.img.h)
            /\ (\/ ClippedExtent(rq.x, rq.w, src.w) <= 0
                \/ ClippedExtent(rq.y, rq.h, src.h) <= 0) =>
                   /\ ret.out = "raise"
                   /\ ret.exc = "ValueError"
                   /\ get_current_img = src

\* C19 happens: a crop reaching beyond the right and bottom edges committed
C19_Witness ==
    /\ CropCalled
    /\ ret.out = "dict"
    /\ driver.snap.x = 1
    /\ driver.snap.w = 3
    /\ driver.snap.y = 0
    /\ driver.snap.h = 2
    /\ driver.snap.src.w = 3

\* the last call was a successful apply_crop with an origin left of or
\* above the image
CroppedFromLowSide ==
    /\ CropCalled
    /\ ret.out = "dict"
    /\ (driver.snap.x < 0 \/ driver.snap.y < 0)

\* f"Cr_{x}_{y}_{w}x{h}"
CropTag(x0, y0, out_w, out_h) ==
    "Cr_" \o ToString(x0) \o "_" \o ToString(y0) \o "_"
          \o ToString(out_w) \o "x" \o ToString(out_h)

\* C20 as stated: for x < 0 or y < 0 the committed region is the requested
\* rectangle [x, x+w) x [y, y+h) cut to the image, that is its intersection
\* with [0, W) x [0, H), and the tag records the clamped origin and the
\* size of that intersection.
C20_LowSideIntersection ==
    CroppedFromLowSide =>
        LET rq  == driver.snap
            src == rq.src
            x0  == Max({0, rq.x})
            y0  == Max({0, rq.y})
            x1  == Min({src.w, rq.x + rq.w})
            y1  == Min({src.h, rq.y + rq.h})
        IN  /\ Content(ret.img) = Region(src, x0, y0, x1 - x0, y1 - y0)
            /\ ret.tag = CropTag(x0, y0, x1 - x0, y1 - y0)

\* C20 amended: for x < 0 or y < 0 the origin is clamped to 0 and the
\* committed region is the rectangle of the requested size w x h placed at
\* the clamped origin and cut to the image: [x0, min(W, x0 + w)) x
\* [y0, min(H, y0 + h)) with x0 = max(0, x), y0 = max(0, y); the tag
\* records the clamped origin and the size after the cut.
C20_LowSideClamped ==
    CroppedFromLowSide =>
        LET rq    == driver.snap
            src   == rq.src
            x0    == Max({0, rq.x})
            y0    == Max({0, rq.y})
            out_w == ClippedExtent(rq.x, rq.w, src.w)
            out_h == ClippedExtent(rq.y, rq.h, src.h)
        IN  /\ Content(ret.img) = Region(src, x0, y0, out_w, out_h)
            /\ ret.img = get_current_img
            /\ ret.tag = CropTag(x0, y0, out_w, out_h)

\* C20 happens: a crop asked from (-1, -1), wider than the image, committed
C20_Witness ==
    /\ CroppedFromLowSide
    /\ driver.snap.x = -1
    /\ driver.snap.y = -1
    /\ driver.snap.w = 3
    /\ driver.snap.h = 2

\* the last call was apply_crop(x, y, w, h) of the session at the edges,
\* made on an image
EdgeCalled ==
    /\ ret.op = "apply_crop"
    /\ driver.phase = "edge"
    /\ driver.snap # <<>>
    /\ driver.snap.src # NoImg

\* the messages of the geometry errors of apply_crop (in English)
GeometryErrors == {"crop width/height must be positive",
                   "crop origin outside the image",
                   "crop region invalid"}

\* C21: apply_crop with an origin at or beyond the far edge (x >= W or
\* y >= H of the current image) fails with a geometry error and commits
\* nothing; so does a request with w <= 0 or h <= 0.
C21_FarOriginOrEmptySizeFails ==
    EdgeCalled =>
        LET rq  == driver.snap
            src == rq.src
        IN  (rq.x >= src.w \/ rq.y >= src.h \/ rq.w <= 0 \/ rq.h <= 0) =>
                /\ ret.out = "raise"
                /\ ret.exc = "ValueError"
                /\ ret.msg \in GeometryErrors
                /\ Snapshot = rq.before

\* C21 happens: a crop asked from the column just past the last one, with a
\* positive size, on an image with a redoable history behind it
C21_Witness ==
    /\ EdgeCalled
    /\ driver.snap.x = driver.snap.src.w
    /\ driver.snap.y = 0
    /\ driver.snap.w > 0
    /\ driver.snap.h > 0
    /\ ret.out = "raise"
    /\ Len(history) > 1

\* C22: apply_crop(0, 0, w, h) with w >= W and h >= H on a loaded image of
\* size W x H succeeds and commits a buffer of the same dimensions and
\* pixel content as the input, as the new current entry.
C22_WholeImageCrop ==
    EdgeCalled =>
        LET rq  == driver.snap
            src == rq.src
        IN  (rq.x = 0 /\ rq.y = 0 /\ rq.w >= src.w /\ rq.h >= src.h) =>
                /\ ret.out = "dict"
                /\ Content(ret.img) = Content(src)
                /\ ret.tag = CropTag(0, 0, src.w, src.h)
                /\ get_current_img = ret.img
                /\ current_index = rq.before.index + 1
                /\ Len(history) = current_index + 1

\* C22 happens: the crop of exactly the whole image, and one asked larger
\* than the image in both directions, have committed
C22_Witness ==
    /\ EdgeCalled
    /\ driver.snap.x = 0
    /\ driver.snap.y = 0
    /\ driver.snap.w > driver.snap.src.w
    /\ driver.snap.h > driver.snap.src.h
    /\ ret.out = "dict"
    /\ Len(history) = 3
    /\ At(history_tags, 1) = CropTag(0, 0, At(history, 0).w, At(history, 0).h)

\* the last call was apply_rotate(angle) of the rotating session, made on
\* an image
RotateCalled ==
    /\ ret.op = "apply_rotate"
    /\ driver.phase = "rotate"
    /\ driver.snap # <<>>
    /\ driver.snap.src # NoImg

\* the angles 90, 180 and 270 and the whole turns added to or taken from
\* an angle of the session
QuarterTurns == {90, 180, 270}

WholeTurns == {-1, 0, 1}

\* "R_90", "R_180", "R_270"
RotateTag(quarter) == "R_" \o ToString(quarter)

\* C23: apply_rotate(angle) succeeds exactly when angle is 90, 180 or 270
\* up to whole turns (450 and -90 are accepted and tagged R_90 and R_270);
\* for every other angle, 0 and 360 included, it fails with the
\* unsupported-parameter error and commits nothing.
C23_RotateAcceptsQuarterTurns ==
    RotateCalled =>
        LET rq == driver.snap
            Is(quarter) ==
                \E n \in WholeTurns : rq.angle = quarter + 360 * n
        IN  /\ \A quarter \in QuarterTurns :
                   Is(quarter) =>
                       /\ ret.out = "dict"
                       /\ ret.tag = RotateTag(quarter)
                       /\ ret.img = get_current_img
                       /\ current_index = rq.before.index + 1
                       /\ At(history_tags, current_index) = RotateTag(quarter)
            /\ (\A quarter \in QuarterTurns : ~Is(quarter)) =>
                   /\ ret.out = "raise"
                   /\ ret.exc = "ValueError"
                   /\ ret.msg = "only 90/180/270 supported"
                   /\ Snapshot = rq.before

\* C23 happens: -90 was accepted as R_270 on top of an entry tagged R_90
C23_Witness ==
    /\ RotateCalled
    /\ driver.snap.angle = -90
    /\ ret.out = "dict"
    /\ ret.tag = "R_270"
    /\ current_index = 2
    /\ At(history_tags, 1) = "R_90"

\* C24: every entry committed by rotate(90) or rotate(270) has the width
\* and height of the entry it was made from exchanged, one committed by
\* rotate(180) has them kept; and after four rotate(90) in a row the
\* buffer has the width, height and pixel content of the one they started
\* from.  (An entry of the history is made from the entry before it.)
C24_FourQuarterTurns ==
    /\ \A i \in 1 .. Len(history) - 1 :
           /\ At(history_tags, i) \in {"R_90", "R_270"} =>
                  /\ At(history, i).w = At(history, i - 1).h
                  /\ At(history, i).h = At(history, i - 1).w
           /\ At(history_tags, i) = "R_180" =>
                  /\ At(history, i).w = At(history, i - 1).w
                  /\ At(history, i).h = At(history, i - 1).h
    /\ \A i \in 4 .. Len(history) - 1 :
           (\A j \in i - 3 .. i : At(history_tags, j) = "R_90") =>
               Content(At(history, i)) = Content(At(history, i - 4))

\* C24 happens: a file that is not square was loaded and rotated by 90
\* degrees four times
C24_Witness ==
    /\ driver.phase = "rotate"
    /\ Len(history) = 5
    /\ current_index = 4
    /\ \A j \in 1 .. 4 : At(history_tags, j) = "R_90"
    /\ At(history, 0).w # At(history, 0).h
    /\ At(history, 1).w = At(history, 0).h

\* the even kernel sizes of the denoising session
EvenKernelSizes == {2, 4}

\* f"D_median{ksize}" / f"D_gauss{ksize}"
KernelTag(method, ksize) ==
    (IF method = "median" THEN "D_median" ELSE "D_gauss") \o ToString(ksize)

\* C25: apply_denoise with method median or gaussian and an even kernel
\* size K >= 2 behaves exactly as with K + 1: from any state, what the call
\* with K leaves (result, tag D_median{K+1} / D_gauss{K+1}, file name and
\* content, history lists, pointer) is what the call with K + 1 leaves, and
\* on a loaded image the even K is not reported as an error.
C25_EvenKernelAsNextOdd ==
    [][\A method \in KernelMethods, K \in EvenKernelSizes :
           /\ denoise_with(method, K) <=> denoise_with(method, K + 1)
           /\ (has_image /\ denoise_with(method, K)) =>
                  /\ ret'.out = "dict"
                  /\ ret'.tag = KernelTag(method, K + 1)
                  /\ At(history_tags', current_index') =
                         KernelTag(method, K + 1)]_vars

\* C25 happens: a Gaussian denoising asked with kernel size 4 has committed
\* on top of a median one asked with an even size as well
C25_Witness ==
    /\ ret.op = "apply_denoise"
    /\ ret.out = "dict"
    /\ driver.phase = "denoise"
    /\ driver.snap # <<>>
    /\ driver.snap.method = "gaussian"
    /\ driver.snap.ksize = 4
    /\ ret.tag = "D_gauss5"
    /\ current_index = 2
    /\ At(history_tags, 1) = "D_median3"

\* the lengths of the history after the five steps of the scenario
ScenarioLengths == <<1, 2, 3, 3, 3>>

\* C26: load a 100 x 100 grayscale image, apply_rotate(90),
\* apply_flip('h'), undo(), apply_crop(0, 0, 50, 50): the history lengths
\* after the steps are 1, 2, 3, 3, 3; after undo the current entry is the
\* post-rotate buffer; the final tags are [original, R_90, Cr_0_0_50x50]
\* with current_index = 2, and the F_h entry is gone.
C26_Scenario ==
    driver.phase = "scenario" =>
        /\ driver.snap.lens = SubSeq(ScenarioLengths, 1, driver.n)
        /\ driver.n = 4 =>
               /\ current_index = 1
               /\ get_current_img = driver.snap.rotated
               /\ ret.op = "undo" => ret.img = driver.snap.rotated
               /\ At(history_tags, current_index) = "R_90"
        /\ driver.n = 5 =>
               /\ history_tags = <<OriginalTag, "R_90", "Cr_0_0_50x50">>
               /\ Len(history) = 3
               /\ Len(history_files) = 3
               /\ current_index = 2
               /\ \A i \in 0 .. Len(history_tags) - 1 :
                      At(history_tags, i) # "F_h"
               /\ At(history, 1) = driver.snap.rotated

\* C26 happens: the five steps are done on the 100 x 100 grayscale file,
\* the flipped entry was there after the third and the crop is 50 x 50
C26_Witness ==
    /\ driver.phase = "scenario"
    /\ driver.n = 5
    /\ At(history, 0).w = 100
    /\ At(history, 0).h = 100
    /\ At(history, 0).ch = 1
    /\ At(history, 2).w = 50
    /\ At(history, 2).h = 50
    /\ ret.op = "apply_crop"
    /\ ret.out = "dict"

\* the last call was get_image_at_step(index) of the lookup session
LookupCalled ==
    /\ ret.op = "get_image_at_step"
    /\ driver.phase = "lookup"
    /\ driver.snap # <<>>

\* C27: get_image_at_step(index) never raises: for 0 <= index <
\* len(history) it returns the buffer stored at that position (also past
\* current_index); for every other integer, negative ones included, and
\* for an empty history, it returns None; it never changes any state.
C27_StepLookupIsTotal ==
    LookupCalled =>
        LET index == driver.snap.index
        IN  /\ ret.out # "raise"
            /\ (0 <= index /\ index < Len(history)) =>
                   /\ ret.out = "array"
                   /\ ret.img = history[index + 1]
            /\ (index < 0 \/ index >= Len(history) \/ history = <<>>) =>
                   /\ ret.out = "None"
                   /\ ret.img = NoImg
            /\ SessionState = driver.snap.before

\* C27 happens: the entry at position 2 was returned while the pointer was
\* before it
C27_Witness ==
    /\ LookupCalled
    /\ driver.snap.index = 2
    /\ ret.out = "array"
    /\ Len(history) = 3
    /\ current_index < 2
    /\ ret.img = At(history, 2)

\* the entry at position i was committed by apply_color_convert in a mode
\* that asks for what the entry before it, its input, already is
ConvertedInPlace(i) ==
    \/ /\ At(history_tags, i) = "C_toGray"
       /\ At(history, i - 1).ch = 1
    \/ /\ At(history_tags, i) = "C_toRGB"
       /\ At(history, i - 1).ch = 3

\* C28: apply_color_convert('gray') on a single-channel image and
\* apply_color_convert('rgb') on a 3-channel image commit a buffer equal to
\* the input that is a fresh copy, not the object of the previous entry;
\* the same mode applied twice gives the buffer it gives applied once.
\* (An entry of the history is made from the entry before it.)
C28_ConvertIdempotent ==
    \A i \in 1 .. Len(history) - 1 :
        /\ ConvertedInPlace(i) =>
               /\ Content(At(history, i)) = Content(At(history, i - 1))
               /\ At(history, i).oid # At(history, i - 1).oid
               /\ \A j \in 0 .. i - 1 : At(history, j).oid # At(history, i).oid
        /\ (/\ i >= 2
            /\ At(history_tags, i) \in {"C_toGray", "C_toRGB"}
            /\ At(history_tags, i) = At(history_tags, i - 1)) =>
               Content(At(history, i)) = Content(At(history, i - 1))

\* C28 happens: a colour photo was converted to gray twice
C28_Witness ==
    /\ driver.phase = "decode"
    /\ Len(history) = 3
    /\ current_index = 2
    /\ At(history, 0).ch = 3
    /\ At(history_tags, 1) = "C_toGray"
    /\ At(history_tags, 2) = "C_toGray"
    /\ At(history, 1).ch = 1
    /\ ConvertedInPlace(2)

\* C29: every buffer admitted into the history, by load_original or by a
\* successful apply_*, has width > 0, height > 0 and 1 or 3 channels,
\* whatever the decoder returned and whatever operations were applied.
C29_AdmittedBuffersWellFormed ==
    \A i \in 0 .. Len(history) - 1 :
        /\ At(history, i).w > 0
        /\ At(history, i).h > 0
        /\ At(history, i).ch \in {1, 3}

\* the last call was load_original(path) of the decoding session, and it
\* raised
LoadFailed ==
    /\ ret.op = "load_original"
    /\ ret.out = "raise"
    /\ driver.phase = "decode"
    /\ driver.snap # <<>>

\* C30: a load_original call that fails (undecodable file or empty image)
\* leaves a previously loaded session untouched: history, tags, file
\* names, current_index, original_name and original_path are as before
\* the call.
C30_FailedLoadKeepsSession ==
    LoadFailed =>
        /\ history = driver.snap.before.history
        /\ history_tags = driver.snap.before.tags
        /\ history_files = driver.snap.before.files
        /\ current_index = driver.snap.before.index
        /\ original_name = driver.snap.before.name
        /\ original_path = driver.snap.before.path

\* C30 happens: an undecodable file was refused while a session with a
\* committed step was loaded
C30_Witness ==
    /\ LoadFailed
    /\ driver.snap.path = "raw/bad.png"
    /\ ret.exc = "RuntimeError"
    /\ Len(history) = 2
    /\ original_name = Some("photo")

\* C31: all writes succeeding, in every reachable state the file named by
\* the persisted name of each history entry at index >= 1 holds exactly
\* that entry's buffer (no later commit has overwritten the file of an
\* entry still in the history), so that get_current_saved_path() points
\* to the image shown.
C31_FilesHoldTheirEntries ==
    /\ \A i \in 1 .. Len(history) - 1 :
           /\ SavedPath(At(history_files, i)) \in DOMAIN disk
           /\ disk[SavedPath(At(history_files, i))] = Content(At(history, i))
    /\ current_index >= 1 =>
           /\ get_current_saved_path # None
           /\ get_current_saved_path[1] \in DOMAIN disk
           /\ disk[get_current_saved_path[1]] = Content(get_current_img)

\* the step is a successful apply_* call of the scripted caller
ScriptCommitted ==
    /\ driver.phase = "commit"
    /\ driver'.phase = "commit"
    /\ Committed

C33_ListsSameLength ==
    /\ Len(history_tags) = Len(history)
    /\ Len(history_files) = Len(history)

\* C33 happens: an apply_* call has failed in cv2.imwrite, after its
\* transform and before its push, on a history with a redoable entry
C33_Witness ==
    /\ ret.op \in ApplyOps
    /\ ret.out = "raise"
    /\ ret.exc = "cv2.error"
    /\ Len(history) = 2
    /\ current_index = 0

\* the last call of run has ended by raising
RunRaised == pipeline.pc = "done" /\ pipeline.out = "raise"

\* the stage in which an exception of run is raised: the decoder's in
\* Import, that of the preprocessor in Preprocess, that of the save in
\* Output
FailedStage(exc) ==
    CASE exc \in {"RuntimeError", "pydicom.error"} -> "IMPORT"
      [] exc = "AttributeError"                     -> "PREPROCESS"
      [] exc = "cv2.error"                          -> "OUTPUT"
      [] OTHER                                      -> "IDLE"

\* C34: when a call inside ImageProcessingPipeline.run raises, the
\* exception propagates and the pipeline state stays at the stage that
\* failed, it is not reset to Idle; a later run on the same object is
\* still accepted, run not testing the state before it starts.
C34_FailureKeepsStage ==
    RunRaised =>
        /\ pipeline.exc # ""
        /\ pipeline.state # "IDLE"
        /\ pipeline.state = FailedStage(pipeline.exc)
        /\ ENABLED Run

\* C34 happens: a run started on a pipeline left in Preprocess has failed
\* in the decoder, leaving the state at Import
C34_Witness ==
    /\ RunRaised
    /\ pipeline.started_in = "PREPROCESS"
    /\ pipeline.exc = "RuntimeError"
    /\ pipeline.state = "IMPORT"

\* the position of a state in the chain
StageRank(state) ==
    CASE state = "IDLE"         -> 0
      [] state = "IMPORT"       -> 1
      [] state = "PREPROCESS"   -> 2
      [] state = "ANNOTATE"     -> 3
      [] state = "AI_DIAGNOSIS" -> 4
      [] state = "OUTPUT"       -> 5

\* the call of run of this frame is between Import and Output: it has set
\* IMPORT and has neither raised nor set IDLE
BetweenImportAndOutput(frame) ==
    frame.pc \in {"load_image", "parse_metadata", "enter_preprocess",
                  "run_all", "enter_annotate", "auto_generate_dummy",
                  "enter_ai_diagnosis", "predict", "enter_output",
                  "save_processed_image", "enter_idle"}

\* C35: with the one pipeline object shared by all web requests, two
\* requests whose calls of run interleave never make the shared state
\* break the chain order: while the other run is still between Import and
\* Output, the state is never set back to Idle or to an earlier stage.
C35_InterleavedRunsKeepOrder ==
    [][(/\ pipeline'.state # pipeline.state
        /\ BetweenImportAndOutput(driver.snap)
        /\ driver'.snap = driver.snap)
           => StageRank(pipeline'.state) > StageRank(pipeline.state)
      ]_vars

\* the workers of the widget whose thread is running
InFlight == {i \in DOMAIN gui.workers : isRunning(gui.workers[i])}

\* C36: at most one text-analysis request is in flight per
\* TextAnalysisWidget: a click made while a worker is running starts no
\* new worker and does not replace the running one, so the only worker
\* that can be running is the one the widget refers to, for any
\* interleaving of clicks and worker completion.
C36_OneWorkerInFlight ==
    /\ Cardinality(InFlight) <= 1
    /\ \A i \in InFlight : i = gui._worker

\* C36 happens: a click has been rejected while the first worker was still
\* running, and a second worker has been started after the first ended
C36_Witness ==
    /\ gui.handler = "information"
    /\ Len(gui.workers) = 2
    /\ InFlight = {2}

\* a step of a worker thread: a worker's position changes
WorkerStepped ==
    /\ Len(gui'.workers) = Len(gui.workers)
    /\ gui'.workers # gui.workers

\* C37: every started text-analysis worker ends by emitting exactly one
\* signal, finished(result) or error(message), never both and never
\* neither, whatever the mode and whether the engine call succeeds or
\* raises; and no step of a worker touches the manager's history.
C37_OneSignalPerWorker ==
    /\ [](\A i \in DOMAIN gui.workers :
             LET worker == gui.workers[i]
             IN  /\ worker.pc = "running" => worker.emitted = <<>>
                 /\ worker.pc \in {"emitted", "finished"} =>
                        /\ Len(worker.emitted) = 1
                        /\ worker.emitted[1] \in {"finished", "error"})
    /\ [][WorkerStepped =>
             UNCHANGED <<history, history_tags, history_files, current_index,
                         original_path, original_name, disk>>
         ]_vars

\* C37 happens: with an image loaded and a step applied, one worker has
\* ended after finished and another after error
C37_Witness ==
    /\ Len(history) = 2
    /\ Len(gui.workers) = 2
    /\ gui.workers[1].pc = "finished" /\ gui.workers[2].pc = "finished"
    /\ gui.workers[1].emitted = <<"finished">>
    /\ gui.workers[2].emitted = <<"error">>

\* C38: after every MainWindow handler that can change the history or the
\* pointer (choose_file, apply_action, crop_by_roi, do_undo, do_redo) has
\* returned, the undo button is enabled exactly when can_undo() holds and
\* the redo button exactly when can_redo() holds.
C38_ButtonsFollowHistory ==
    /\ gui.btn_undo = can_undo
    /\ gui.btn_redo = can_redo

NonPositiveSizes == {-1, 0}

\* the call has committed a new entry on top of the current one
CommittedOnTop ==
    /\ ret'.out = "dict"
    /\ current_index' = current_index + 1
    /\ Len(history') = current_index + 2
    /\ At(history', current_index').oid = ret'.img.oid
    /\ At(history_tags', current_index') = ret'.tag

\* C39: apply_denoise with a kernel size ksize <= 0 does not fail: for
\* median and gaussian it behaves exactly as with ksize = 3 (tag D_median3
\* / D_gauss3) and commits a new entry; for method bilateral the kernel
\* size is ignored, whatever it is, and the tag is D_bilat{d}.
C39_NonPositiveKernelAsThree ==
    [][/\ \A method \in KernelMethods, K \in NonPositiveSizes,
             d \in BilateralDs :
              /\ denoise_of(method, K, d) <=> denoise_of(method, 3, d)
              /\ (has_image /\ denoise_of(method, K, d)) =>
                     /\ CommittedOnTop
                     /\ ret'.tag = KernelTag(method, 3)
       /\ \A K \in DefaultedSizes, d \in BilateralDs :
              /\ denoise_of("bilateral", K, d) <=>
                     denoise_of("bilateral", 3, d)
              /\ (has_image /\ denoise_of("bilateral", K, d)) =>
                     /\ CommittedOnTop
                     /\ ret'.tag = "D_bilat" \o ToString(d)
      ]_vars

\* C39 happens: a median denoising asked with kernel size 0 has committed
\* as D_median3 on top of a bilateral one asked with size -1 and diameter 9
C39_Witness ==
    /\ driver.phase = "defaulted"
    /\ driver.snap # <<>>
    /\ driver.snap.method = "median"
    /\ driver.snap.ksize = 0
    /\ ret.op = "apply_denoise"
    /\ ret.out = "dict"
    /\ ret.tag = "D_median3"
    /\ current_index = 2
    /\ At(history_tags, 1) = "D_bilat9"

====
